---- MODULE Spec2Model ----
(***************************************************************************)
(* Model of the UI core of Prescriptivism (pr.client.ui): the Position     *)
(* resolver, the Screen tick / refresh protocol, the TextEdit widget, the  *)
(* CardGroup layout and the InputSystem's game loop; of pr::Thread; and of *)
(* pr::validation (ValidateInitialWord, ValidatePlaySoundCard).            *)
(*                                                                         *)
(* The specifications that share the module:                               *)
(*   PosSpec      Position construction, offsetting and resolution         *)
(*   TickSpec     Screen::tick under visibility changes                    *)
(*   RefreshSpec  Screen::refresh, resize and the needs_refresh latch      *)
(*   CursorSpec   TextEdit cursor placement and clicks over shaped texts   *)
(*   EditSpec     TextEdit editing: event_input, value, draw, refresh      *)
(*   GroupSpec    CardGroup setters, add and refresh                       *)
(*   LoopSpec     InputSystem::game_loop: poll, tick, wait or log          *)
(*   LoopFairSpec LoopSpec with the steps of the loop weakly fair          *)
(*   ThreadSpec   pr::Thread: the owner's calls and the worker             *)
(*   ThreadFairSpec  ThreadSpec, start() and the worker weakly fair        *)
(*   InputSpec    game_loop fed with key-down and text-input events        *)
(*   LatchSpec    the writers of needs_refresh and the refreshes           *)
(*   ValidationSpec  pr::validation over the card database                 *)
(***************************************************************************)
EXTENDS Integers, Sequences, FiniteSets, TLC

VARIABLES
    pos,          \* Position: the value being built and resolved
    rel_call,     \* <<arguments>> of the relative() call made, else <<>>
    rel_result,   \* <<xy>> returned by that call, else <<>>
    children,     \* Screen::children, in insertion order
    selected_element, \* Screen::selected_element: index into children, 0 = nullptr
    tick_input,   \* <<[left |-> input.mouse.left]>> of the last Screen::tick, else <<>>
    tick_log,     \* callbacks dispatched by the last Screen::tick, in order
    was_selected, \* InputSystem::was_selected
    sdl_text_input, \* SDL text-input call made by the last update_selection
    screen_box,   \* Screen::bounding_box (its size; the origin is always {0, 0})
    prev_size,    \* Screen::prev_size
    renderer_size,\* Renderer::size()
    refresh_log,  \* children refreshed by the last Screen::refresh, in order,
                  \* until the screen or the window changes
    shaped,       \* TextEdit: the shaped label (clusters, width), the text's
                  \* size and the x coordinate TextPos(label) puts the label at
    cursor,       \* TextEdit::cursor
    cursor_offs,  \* TextBox::cursor_offs
    edit_click,   \* <<[mx, seen]>> when TextEdit::event_click was the last call
                  \* on the TextEdit, else <<>>
    text,         \* TextEdit::text
    dirty,        \* TextEdit::dirty
    hide_text,    \* TextEdit::hide_text
    thrown,       \* an exception left event_input (std::out_of_range)
    group,        \* CardGroup: scale, max_width, autoscale, needs_refresh, pos
                  \* and bounding_box
    cards,        \* CardGroup::cards
    parent_box,   \* bounding_box of the CardGroup's parent
    layout,       \* <<[width, s]>> of the CardGroup::refresh that laid the
                  \* cards out last, <<>> once anything changed since
    input,        \* InputSystem: quit, mouse, kb_events and text_input
    loop_pc,      \* InputSystem::game_loop: "test" at the loop condition, "poll"
                  \* before process_events, "tick" before the callback, "end"
                  \* after it, "returned" once the loop is left
    polled,       \* the events the last process_events took from SDL_PollEvent
    loop_log,     \* <<[d, wait, overrun]>> of the iteration that has just
                  \* ended: its duration, the timeout of SDL_WaitEventTimeout
                  \* and the duration logged as too long, each <<>> when not
                  \* made; <<>> once the loop condition is tested
    run_flag,     \* Thread::run_flag
    thread_result, \* Thread::result
    thread,       \* Thread::thread: whether a thread is attached (joinable) and
                  \* whether its stop was requested
    start_pc,     \* the owner of the Thread: "idle" between calls, "spawned"
                  \* inside start() with the worker created and run_flag not
                  \* yet stored, "aborted" after a failed Assert
    worker,       \* the worker last created: "none", "invoke" while the
                  \* callable runs, "written" with the result assigned, "done"
                  \* with run_flag cleared
    starts,       \* number of workers created
    thread_call,  \* <<[call, asserted, ret]>> of the owner's last call
    labels,       \* <<TextBox::label, Label::text>> of the text box and the label
                  \* that are the two children of a screen
    val_in,       \* <<the arguments>> of the validation call made, else <<>>
    val_out       \* <<what the call returned and the span indices it read>>

posVars == <<pos, rel_call, rel_result>>
tickVars == <<selected_element, tick_input, tick_log, was_selected, sdl_text_input>>
refreshVars == <<screen_box, prev_size, renderer_size, refresh_log>>
screenVars == <<children, selected_element, tick_input, tick_log, was_selected,
                sdl_text_input, screen_box, prev_size, renderer_size, refresh_log>>
cursorVars == <<shaped, cursor, cursor_offs, edit_click>>
editVars == <<text, dirty, hide_text, thrown>>
textVars == <<cursorVars, editVars>>
groupVars == <<group, cards, parent_box, layout>>
widgetVars == <<textVars, groupVars>>
loopVars == <<input, loop_pc, polled, loop_log>>
threadVars == <<run_flag, thread_result, thread, start_pc, worker, starts, thread_call>>
extVars == <<labels, val_in, val_out>>
sysVars == <<loopVars, threadVars, extVars>>
vars == <<pos, rel_call, rel_result, children, selected_element, tick_input,
          tick_log, was_selected, sdl_text_input, screen_box, prev_size,
          renderer_size, refresh_log, shaped, cursor, cursor_offs, edit_click,
          text, dirty, hide_text, thrown, group, cards, parent_box, layout,
          input, loop_pc, polled, loop_log, run_flag, thread_result, thread, start_pc,
          worker, starts, thread_call, labels, val_in, val_out>>

\* ---------------------------------------------------------------------------
\*  Bounds
\* ---------------------------------------------------------------------------
MaxCoord == 1     \* literal base coordinates range over -MaxCoord..1
MaxAdjust == 1    \* xadjust / yadjust range over -1..MaxAdjust
MaxOrigin == 3    \* container origins are (0, 0) and (MaxOrigin, 2 * MaxOrigin + 1)
MaxExtent == 2    \* container and object extents range over 0..MaxExtent
MaxChildren == 2  \* children a Screen creates
MaxMouse == 2     \* mouse positions range over 0..MaxMouse
MaxWindow == 1    \* renderer sizes: the first MaxWindow + 1 of (0,0), (0,1), (1,1), (1,2), ...
MaxSized == 1     \* children of the refreshed screen whose refresh sets their box
MaxLen == 3       \* shaped texts have 1..MaxLen characters
MaxOffset == 3    \* cluster offsets and label widths range over 0..MaxOffset
MaxInset == 1     \* a text box starts at 0 or MaxInset and pads its label likewise
MinWd == 5        \* min_wd of the edited TextEdit: a label of three glyphs is wider
MaxText == 3      \* an edited text has at most MaxText characters
MaxEvents == 2    \* events pending at one poll
MaxElapsed == 25  \* milliseconds an iteration of the game loop takes
MaxStarts == 3    \* times a Thread is started
MaxOn == 3        \* a span of at most MaxOn cards is played on
WordSize == 3     \* constants::StartingWordSize, the length of a Word
MaxRow == 1       \* cards added to a group that shares a screen with other widgets
MaxCards == 4     \* a CardGroup holds at most MaxCards cards
GlyphAdvance == 2 \* width of every glyph of the font that shapes an edited text

\* ---------------------------------------------------------------------------
\*  Position
\* ---------------------------------------------------------------------------
NoCall == "none"

\* std::numeric_limits<i32>::min()
Centered == -2147483647 - 1

Anchors == {"North", "NorthEast", "East", "SouthEast", "South", "SouthWest",
            "West", "NorthWest", "Center"}

\* Anchor::Default
DefaultAnchor == "SouthWest"

\* C++ integer division by two: the quotient is truncated toward zero.
Half(n) == IF n >= 0 THEN n \div 2 ELSE -((-n) \div 2)

\* std::abs
Abs(n) == IF n < 0 THEN -n ELSE n

Clamp_FarEdgeFlush(val, obj_size, total_size) ==
    IF val = Centered THEN Half(total_size - obj_size)
    ELSE IF val < 0 THEN total_size + val + 1 - obj_size
    ELSE val

Clamp_NoObjSize(val, obj_size, total_size) ==
    IF val = Centered THEN Half(total_size - obj_size)
    ELSE IF val < 0 THEN total_size + val
    ELSE val

\* The Clamp lambda of Position::relative.
Clamp(val, obj_size, total_size) ==
    IF val = Centered THEN Half(total_size - obj_size)
    ELSE IF val < 0 THEN total_size + val - obj_size
    ELSE val

AnchorAdjust_CenterIsSouthWest(anchor, obj_wd, obj_ht) ==
    CASE anchor = "North"     -> <<Half(obj_wd), obj_ht>>
      [] anchor = "NorthEast" -> <<obj_wd, obj_ht>>
      [] anchor = "East"      -> <<obj_wd, Half(obj_ht)>>
      [] anchor = "SouthEast" -> <<obj_wd, 0>>
      [] anchor = "South"     -> <<Half(obj_wd), 0>>
      [] anchor = "SouthWest" -> <<0, 0>>
      [] anchor = "West"      -> <<0, Half(obj_ht)>>
      [] anchor = "NorthWest" -> <<0, obj_ht>>
      [] anchor = "Center"    -> <<0, 0>>

AnchorAdjust_NorthHalfHeight(anchor, obj_wd, obj_ht) ==
    CASE anchor = "North"     -> <<Half(obj_wd), Half(obj_ht)>>
      [] anchor = "NorthEast" -> <<obj_wd, obj_ht>>
      [] anchor = "East"      -> <<obj_wd, Half(obj_ht)>>
      [] anchor = "SouthEast" -> <<obj_wd, 0>>
      [] anchor = "South"     -> <<Half(obj_wd), 0>>
      [] anchor = "SouthWest" -> <<0, 0>>
      [] anchor = "West"      -> <<0, Half(obj_ht)>>
      [] anchor = "NorthWest" -> <<0, obj_ht>>
      [] anchor = "Center"    -> <<Half(obj_wd), Half(obj_ht)>>

\* The switch over the anchor in Position::relative: the arguments (xa, ya)
\* that each case passes to Adjust.
AnchorAdjust(anchor, obj_wd, obj_ht) ==
    CASE anchor = "North"     -> <<Half(obj_wd), obj_ht>>
      [] anchor = "NorthEast" -> <<obj_wd, obj_ht>>
      [] anchor = "East"      -> <<obj_wd, Half(obj_ht)>>
      [] anchor = "SouthEast" -> <<obj_wd, 0>>
      [] anchor = "South"     -> <<Half(obj_wd), 0>>
      [] anchor = "SouthWest" -> <<0, 0>>
      [] anchor = "West"      -> <<0, Half(obj_ht)>>
      [] anchor = "NorthWest" -> <<0, obj_ht>>
      [] anchor = "Center"    -> <<Half(obj_wd), Half(obj_ht)>>

Adjust_Always(base, v, a) == v - a

\* The Adjust lambda of Position::relative, for one axis: the anchor's share
\* is subtracted unless the base coordinate of the axis is Centered.
Adjust(base, v, a) == IF base # Centered THEN v - a ELSE v

RelativeXY_AdjustSkippedWhenCentered(p, parent, parent_size, object_size) ==
    LET x == parent[1] + Clamp(p.base[1], object_size[1], parent_size[1])
                + (IF p.base[1] = Centered THEN 0 ELSE p.xadjust)
        y == parent[2] + Clamp(p.base[2], object_size[2], parent_size[2])
                + (IF p.base[2] = Centered THEN 0 ELSE p.yadjust)
        adj == AnchorAdjust(p.anchor, object_size[1], object_size[2])
    IN  <<Adjust(p.base[1], x, adj[1]), Adjust(p.base[2], y, adj[2])>>

\* Position::relative(xy parent, Size parent_size, Size object_size)
RelativeXY(p, parent, parent_size, object_size) ==
    LET x == parent[1] + Clamp(p.base[1], object_size[1], parent_size[1]) + p.xadjust
        y == parent[2] + Clamp(p.base[2], object_size[2], parent_size[2]) + p.yadjust
        adj == AnchorAdjust(p.anchor, object_size[1], object_size[2])
    IN  <<Adjust(p.base[1], x, adj[1]), Adjust(p.base[2], y, adj[2])>>

\* std::saturate_cast<i16>
SaturateI16(v) == IF v > 32767 THEN 32767 ELSE IF v < -32768 THEN -32768 ELSE v

\* Conversion of an int to i16 on assignment.
WrapI16(v) == ((v + 32768) % 65536) - 32768

\* Position(i32 x, i32 y, Anchor a): the adjustments are value-initialised.
MkPosition(x, y, a) == [base |-> <<x, y>>, xadjust |-> 0, yadjust |-> 0, anchor |-> a]

HCenter(y, a) == MkPosition(Centered, y, a)
VCenter(x, a) == MkPosition(x, Centered, a)
Center(a) == MkPosition(Centered, Centered, a)

Literals == (-MaxCoord)..1
Adjustments == (-1)..MaxAdjust
Origins == {<<0, 0>>, <<MaxOrigin, 2 * MaxOrigin + 1>>}
Extents == 0..MaxExtent

\* Arguments <<parent, parent_size, object_size>> handed to relative(): the
\* bounded ones and those of the documented example (a 50x20 object in a
\* 200x100 container at the origin).
RelativeCalls ==
    (Origins \X (Extents \X Extents) \X (Extents \X Extents))
    \cup {<<<<0, 0>>, <<200, 100>>, <<50, 20>>>>}

\* A Position as one of its constructors and factories leaves it, with the
\* default anchor argument; anchor_to gives it any other anchor.
PosInit ==
    /\ pos \in  {MkPosition(x, y, DefaultAnchor) : x \in Literals, y \in Literals}
           \cup {HCenter(y, DefaultAnchor) : y \in Literals}
           \cup {VCenter(x, DefaultAnchor) : x \in Literals}
           \cup {Center(DefaultAnchor)}
    /\ rel_call = <<>>
    /\ rel_result = <<>>

\* Position::anchor_to
AnchorTo(a) ==
    /\ rel_call = <<>>
    /\ pos.anchor # a
    /\ pos' = [pos EXCEPT !.anchor = a]
    /\ UNCHANGED <<rel_call, rel_result, screenVars, widgetVars, sysVars>>

\* Position::hoffset
Hoffset(offset) ==
    /\ rel_call = <<>>
    /\ WrapI16(pos.xadjust + SaturateI16(offset)) \in Adjustments
    /\ pos' = [pos EXCEPT !.xadjust = WrapI16(pos.xadjust + SaturateI16(offset))]
    /\ UNCHANGED <<rel_call, rel_result, screenVars, widgetVars, sysVars>>

\* Position::voffset
Voffset(offset) ==
    /\ rel_call = <<>>
    /\ WrapI16(pos.yadjust + SaturateI16(offset)) \in Adjustments
    /\ pos' = [pos EXCEPT !.yadjust = WrapI16(pos.yadjust + SaturateI16(offset))]
    /\ UNCHANGED <<rel_call, rel_result, screenVars, widgetVars, sysVars>>

\* Position::relative(xy, Size, Size)
Relative(parent, parent_size, object_size) ==
    /\ rel_call = <<>>
    /\ rel_call' = <<[parent |-> parent, parent_size |-> parent_size,
                      object_size |-> object_size]>>
    /\ rel_result' = <<RelativeXY(pos, parent, parent_size, object_size)>>
    /\ UNCHANGED <<pos, screenVars, widgetVars, sysVars>>

\* ---------------------------------------------------------------------------
\*  Widgets and the Screen
\* ---------------------------------------------------------------------------
\* Mouse positions, on one axis.
Points == 0..MaxMouse

\* Bounding boxes: a box is the set of the points it covers. There is a small
\* box and a large one; the last point lies outside both.
Boxes == {0..0, 0..(MaxMouse - 1)}

\* AABB::contains
Contains(box, point) == point \in box

\* The box of width wd whose left edge is x: the points it covers.
BoxAt(x, wd) == {p \in Points : x <= p /\ p <= x + wd}

\* Widget::Widget: the flags' default member initialisers. kind names the
\* class whose refresh override the child carries ("Widget": Element::refresh,
\* which does nothing, and Label::refresh, which leaves the box alone); the
\* remaining fields are the members that override reads.
Widget(selectable, box, needs_refresh) ==
    [hovered |-> FALSE, selectable |-> selectable, selected |-> FALSE,
     visible |-> TRUE, needs_refresh |-> needs_refresh, bounding_box |-> box,
     kind |-> "Widget", padding |-> 0, min_wd |-> 0, label_width |-> 0,
     scale |-> 0, ncards |-> 0]

\* Widget::reset_properties
reset_properties(e) == [e EXCEPT !.hovered = FALSE, !.selected = FALSE]

\* Screen::visible
visible(ch) == {i \in 1..Len(ch) : ch[i].visible}

\* Screen::Screen and InputSystem::InputSystem
ScreenInit ==
    /\ children = <<>>
    /\ selected_element = 0
    /\ tick_input = <<>>
    /\ tick_log = <<>>
    /\ was_selected = FALSE
    /\ sdl_text_input = NoCall
    /\ screen_box = <<0, 0>>
    /\ prev_size = <<0, 0>>
    /\ refresh_log = <<>>

\* Screen::Create: the new widget is appended to children.
Create(e) ==
    /\ Len(children) < MaxChildren
    /\ children' = Append(children, e)
    /\ refresh_log' = <<>>
    /\ UNCHANGED <<posVars, tickVars, screen_box, prev_size, renderer_size, widgetVars, sysVars>>

\* Assignment to the public member Widget::visible.
SetVisible(i, v) ==
    /\ i \in 1..Len(children)
    /\ children[i].visible # v
    /\ children' = [children EXCEPT ![i].visible = v]
    /\ refresh_log' = <<>>
    /\ UNCHANGED <<posVars, tickVars, screen_box, prev_size, renderer_size, widgetVars, sysVars>>

\* Element::SetBoundingBox, as called by a widget's own refresh.
SetBoundingBox(i, box) ==
    /\ i \in 1..Len(children)
    /\ children[i].bounding_box # box
    /\ children' = [children EXCEPT ![i].bounding_box = box]
    /\ UNCHANGED <<posVars, tickVars, refreshVars, widgetVars, sysVars>>

Select_FirstMatch(e, i, sel) == IF e.selectable /\ sel = 0 THEN i ELSE sel

\* Screen::tick, 'if (e->selectable) selected_element = e.get()'
Select(e, i, sel) == IF e.selectable THEN i ELSE sel

RECURSIVE TickChildren_SelectableOnly(_, _, _, _, _)
TickChildren_SelectableOnly(i, ch, sel, log, mouse) ==
    IF i > Len(ch) THEN [children |-> ch, sel |-> sel, log |-> log]
    ELSE IF ~ch[i].visible THEN TickChildren_SelectableOnly(i + 1, ch, sel, log, mouse)
    ELSE LET hov == Contains(ch[i].bounding_box, mouse.pos)
             e == [reset_properties(ch[i]) EXCEPT !.hovered = hov]
             click == hov /\ mouse.left /\ e.selectable
         IN  TickChildren_SelectableOnly(i + 1, [ch EXCEPT ![i] = e],
                          IF click THEN Select(e, i, sel) ELSE sel,
                          IF click THEN Append(log, <<"event_click", i>>) ELSE log,
                          mouse)

RECURSIVE TickChildren_StickyHover(_, _, _, _, _)
TickChildren_StickyHover(i, ch, sel, log, mouse) ==
    IF i > Len(ch) THEN [children |-> ch, sel |-> sel, log |-> log]
    ELSE IF ~ch[i].visible THEN TickChildren_StickyHover(i + 1, ch, sel, log, mouse)
    ELSE LET hov == ch[i].hovered \/ Contains(ch[i].bounding_box, mouse.pos)
             e == [reset_properties(ch[i]) EXCEPT !.hovered = hov]
             click == Contains(ch[i].bounding_box, mouse.pos) /\ mouse.left
         IN  TickChildren_StickyHover(i + 1, [ch EXCEPT ![i] = e],
                          IF click THEN Select(e, i, sel) ELSE sel,
                          IF click THEN Append(log, <<"event_click", i>>) ELSE log,
                          mouse)

\* Screen::tick, the loop over visible(): children from index i on.
RECURSIVE TickChildren(_, _, _, _, _)
TickChildren(i, ch, sel, log, mouse) ==
    IF i > Len(ch) THEN [children |-> ch, sel |-> sel, log |-> log]
    ELSE IF ~ch[i].visible THEN TickChildren(i + 1, ch, sel, log, mouse)
    ELSE LET hov == Contains(ch[i].bounding_box, mouse.pos)
             e == [reset_properties(ch[i]) EXCEPT !.hovered = hov]
             click == hov /\ mouse.left
         IN  TickChildren(i + 1, [ch EXCEPT ![i] = e],
                          IF click THEN Select(e, i, sel) ELSE sel,
                          IF click THEN Append(log, <<"event_click", i>>) ELSE log,
                          mouse)

Reassert_OnClickOnly(r, mouse) ==
    IF r.sel # 0 /\ mouse.left
    THEN [r EXCEPT !.children[r.sel].selected = TRUE,
                   !.log = Append(r.log, <<"event_input", r.sel>>)]
    ELSE r

\* Screen::tick, 'Mark the selected element as selected once more.'
Reassert(r, mouse) ==
    IF r.sel # 0
    THEN [r EXCEPT !.children[r.sel].selected = TRUE,
                   !.log = Append(r.log, <<"event_input", r.sel>>)]
    ELSE r

update_selection_NoEarlyReturn(is_element_selected) ==
    /\ was_selected' = is_element_selected
    /\ sdl_text_input' = IF is_element_selected THEN "SDL_StartTextInput"
                                                ELSE "SDL_StopTextInput"

\* InputSystem::update_selection
update_selection(is_element_selected) ==
    IF was_selected = is_element_selected
    THEN /\ UNCHANGED was_selected
         /\ sdl_text_input' = NoCall
    ELSE /\ was_selected' = is_element_selected
         /\ sdl_text_input' = IF is_element_selected THEN "SDL_StartTextInput"
                                                     ELSE "SDL_StopTextInput"

\* The body of Screen::tick(InputSystem& input), input.mouse given.
TickBody(m) ==
    LET sel0 == IF m.left THEN 0 ELSE selected_element
        r == Reassert(TickChildren(1, children, sel0, <<>>, m), m)
    IN  /\ children' = r.children
        /\ selected_element' = r.sel
        /\ tick_log' = r.log
        /\ tick_input' = <<[left |-> m.left]>>
        /\ update_selection(r.sel # 0)

\* Screen::tick(InputSystem& input), called on its own.
Tick(m) ==
    /\ TickBody(m)
    /\ UNCHANGED <<posVars, refreshVars, widgetVars, sysVars>>

MouseStates == [left : BOOLEAN, pos : Points]

RendererSizes == {<<k \div 2, (k + 1) \div 2>> : k \in 0..MaxWindow}

\* The window is resized: Renderer::size() changes.
Resize(size) ==
    /\ renderer_size # size
    /\ renderer_size' = size
    /\ refresh_log' = <<>>
    /\ UNCHANGED <<posVars, tickVars, children, screen_box, prev_size, widgetVars, sysVars>>

\* A widget requests a refresh and changes no other member the screen's
\* refresh reads: 'needs_refresh = true' in Label::update_text and
\* Label::should_reflow, and a direct assignment to the public member.
RequestRefresh(i) ==
    /\ i \in 1..Len(children)
    /\ ~children[i].needs_refresh
    /\ children' = [children EXCEPT ![i].needs_refresh = TRUE]
    /\ refresh_log' = <<>>
    /\ UNCHANGED <<posVars, tickVars, screen_box, prev_size, renderer_size, widgetVars, sysVars>>

\* ---------------------------------------------------------------------------
\*  TextEdit: cursor placement (TextEdit::draw, TextEdit::event_click)
\* ---------------------------------------------------------------------------
\* A shaped text is [clusters, width, size, box]: the ShapedText::Cluster list
\* (index, xoffs) that make_text fills in, label.width, text.size(), and the
\* widget's rbox() on the x axis as <<x, width>>.
Pow2(e) == 2 ^ e

\* The binary exponent of k / n for 0 < k, 0 < n: the e with
\* 2^e <= k / n < 2^(e + 1), searched upwards or downwards from e0.
RECURSIVE QuotExp(_, _, _)
QuotExp(k, n, e0) ==
    IF e0 >= 0 /\ k >= n * Pow2(e0 + 1) THEN QuotExp(k, n, e0 + 1)
    ELSE IF e0 <= 0 /\ k * Pow2(-e0) < n THEN QuotExp(k, n, e0 - 1)
    ELSE e0

\* f32(k) / f32(n) for 0 <= k, 0 < n: the float nearest to k / n (24
\* significant bits, ties to even), returned as <<M, p>> standing for M / 2^p.
F32Quot(k, n) ==
    IF k = 0 THEN <<0, 0>>
    ELSE LET p   == 23 - QuotExp(k, n, 0)
             num == k * Pow2(p)
             m   == num \div n
             r   == num % n
         IN  IF 2 * r > n \/ (2 * r = n /\ m % 2 = 1) THEN <<m + 1, p>> ELSE <<m, p>>

\* i32(std::lerp(x1, x2, f32(k) / f32(n))) for 0 <= x1 <= x2, 0 <= k, 0 < n:
\* the integers are promoted to double, where x1 + t * (x2 - x1) is exact, and
\* the conversion to i32 drops the fraction.
LerpTrunc(x1, x2, k, n) ==
    LET q == F32Quot(k, n) IN x1 + (q[1] * (x2 - x1)) \div Pow2(q[2])

\* rgs::lower_bound(clusters, cursor, {}, &Cluster::index): the position of the
\* first cluster whose index is not below the cursor, Len + 1 for end().
LowerBound(clusters, c) ==
    IF \E j \in 1..Len(clusters) : clusters[j].index >= c
    THEN CHOOSE j \in 1..Len(clusters) :
            /\ clusters[j].index >= c
            /\ \A i \in 1..(j - 1) : clusters[i].index < c
    ELSE Len(clusters) + 1

CursorBracket_EndAtLastCluster(sh, c) ==
    LET it == LowerBound(sh.clusters, c)
    IN  IF it <= Len(sh.clusters)
        THEN [prev |-> it - 1, i2 |-> sh.clusters[it].index,
              x2 |-> sh.clusters[it].xoffs, virtual |-> FALSE]
        ELSE [prev |-> it - 1, i2 |-> sh.clusters[it - 1].index,
              x2 |-> sh.clusters[it - 1].xoffs, virtual |-> TRUE]

\* The clusters the cursor_offs lambda interpolates between for a cursor c:
\* prev is the position of std::prev(it) in the list, (i2, x2) the cluster at
\* it, or the text's size and the label's width when it is end().
CursorBracket(sh, c) ==
    LET it == LowerBound(sh.clusters, c)
    IN  IF it <= Len(sh.clusters)
        THEN [prev |-> it - 1, i2 |-> sh.clusters[it].index,
              x2 |-> sh.clusters[it].xoffs, virtual |-> FALSE]
        ELSE [prev |-> it - 1, i2 |-> sh.size, x2 |-> sh.width, virtual |-> TRUE]

\* The cursor_offs lambda of TextEdit::draw past its two early returns: the
\* cursor is neither 0 nor text.size().
CursorInside(sh, c) ==
    LET b    == CursorBracket(sh, c)
        prev == sh.clusters[b.prev]
    IN  IF ~b.virtual /\ b.i2 = c THEN b.x2
        ELSE LerpTrunc(prev.xoffs, b.x2, c - prev.index, b.i2 - prev.index)

CursorOffs_EndAtLastCluster(sh, c) ==
    IF c = 0 THEN 0
    ELSE IF c = sh.size THEN sh.clusters[Len(sh.clusters)].xoffs
    ELSE CursorInside(sh, c)

\* The cursor_offs lambda of TextEdit::draw.
CursorOffs(sh, c) ==
    IF c = 0 THEN 0
    ELSE IF c = sh.size THEN sh.width
    ELSE CursorInside(sh, c)

\* TextBox::TextPos(label).x: the label is centred in the widget's box.
TextPos(sh) ==
    RelativeXY(Center(DefaultAnchor), <<sh.box[1], 0>>, <<sh.box[2], 0>>,
               <<sh.width, 0>>)[1]

\* What the interpolation in event_click produces when the candidate cluster
\* is also the previous one and the index range is zero: the quotient is
\* -infinity, std::lerp then yields its upper argument or a NaN, and the
\* conversion of a NaN to i32 is undefined (INT_MIN on x86).
DegenerateLerps == {"upper", "nan"}
DegenerateLerp(u, b) == IF u = "upper" THEN b ELSE Centered

\* std::abs(x + xoffs - mx) in 32 bits. With xoffs = INT_MIN the sum wraps
\* around and the absolute value of INT_MIN is INT_MIN again.
Distance(x, xoffs, mx) ==
    IF xoffs # Centered THEN Abs(x + xoffs - mx)
    ELSE IF x - mx < 0 THEN (2147483647 + (x - mx)) + 1
    ELSE IF x - mx = 0 THEN Centered
    ELSE (2147483647 - (x - mx)) + 1

\* The while loop of TextEdit::event_click. c is the candidate cursor, d the
\* best distance so far, it the position of the candidate cluster (Len + 1 for
\* end()), prev the position of the previous cluster (0 for nullptr), u picks
\* the outcome of a degenerate interpolation.
RECURSIVE ClickLoop_NoSizeGuard(_, _, _, _, _, _, _, _)
ClickLoop_NoSizeGuard(sh, mx, u, c, d, it, prev, seen) ==
    IF ~(it <= Len(sh.clusters)) THEN [c |-> c, seen |-> seen]
    ELSE LET cur    == sh.clusters[it]
             prev_x == IF prev # 0 THEN sh.clusters[prev].xoffs ELSE 0
             prev_i == IF prev # 0 THEN sh.clusters[prev].index ELSE 0
             xoffs  == IF c = cur.index THEN cur.xoffs
                       ELSE IF cur.index = prev_i
                       THEN DegenerateLerp(u, cur.xoffs)
                       ELSE LerpTrunc(prev_x, cur.xoffs, c - prev_i, cur.index - prev_i)
             nd     == Distance(TextPos(sh), xoffs, mx)
             log    == Append(seen, [k |-> c, xoffs |-> xoffs, exact |-> c = cur.index,
                                     range |-> cur.index - prev_i])
         IN  IF nd > d THEN [c |-> c - 1, seen |-> log]
             ELSE ClickLoop_NoSizeGuard(sh, mx, u, c + 1, nd,
                            IF c + 1 > cur.index THEN it + 1 ELSE it, it, log)

\* seen lists the candidates examined as [k, xoffs, range, exact]: the
\* candidate cursor, the offset computed for it, and for one that is not the
\* index of the candidate cluster the index range the quotient divides by.
RECURSIVE ClickLoop(_, _, _, _, _, _, _, _)
ClickLoop(sh, mx, u, c, d, it, prev, seen) ==
    IF ~(c < sh.size /\ it <= Len(sh.clusters)) THEN [c |-> c, seen |-> seen]
    ELSE LET cur    == sh.clusters[it]
             prev_x == IF prev # 0 THEN sh.clusters[prev].xoffs ELSE 0
             prev_i == IF prev # 0 THEN sh.clusters[prev].index ELSE 0
             xoffs  == IF c = cur.index THEN cur.xoffs
                       ELSE IF cur.index = prev_i
                       THEN DegenerateLerp(u, cur.xoffs)
                       ELSE LerpTrunc(prev_x, cur.xoffs, c - prev_i, cur.index - prev_i)
             nd     == Distance(TextPos(sh), xoffs, mx)
             log    == Append(seen, [k |-> c, xoffs |-> xoffs, exact |-> c = cur.index,
                                     range |-> cur.index - prev_i])
         IN  IF nd > d THEN [c |-> c - 1, seen |-> log]
             ELSE ClickLoop(sh, mx, u, c + 1, nd,
                            IF c + 1 > cur.index THEN it + 1 ELSE it, it, log)

\* std::clamp(v, lo, hi)
StdClamp(v, lo, hi) == IF v < lo THEN lo ELSE IF hi < v THEN hi ELSE v

ClickCursor_NoRightCase(sh, mx, u) ==
    LET x0 == TextPos(sh)
    IN  IF mx < x0 THEN 0
        ELSE IF Len(sh.clusters) < 2 THEN 0
        ELSE StdClamp(ClickLoop(sh, mx, u, 0, Abs(x0 - mx), 1, 0, <<>>).c, 0, sh.size)

\* The cursor TextEdit::event_click sets for a mouse at x coordinate mx.
ClickCursor(sh, mx, u) ==
    LET x0 == TextPos(sh)
        x1 == x0 + sh.width
    IN  IF mx < x0 THEN 0
        ELSE IF mx > x1 THEN sh.size
        ELSE IF Len(sh.clusters) < 2 THEN 0
        ELSE StdClamp(ClickLoop(sh, mx, u, 0, Abs(x0 - mx), 1, 0, <<>>).c, 0, sh.size)

\* The candidates the loop of event_click examines for a mouse at mx, none
\* when the loop is not entered.
ClickSeen(sh, mx, u) ==
    LET x0 == TextPos(sh)
    IN  IF mx < x0 \/ mx > x0 + sh.width \/ Len(sh.clusters) < 2 THEN <<>>
        ELSE ClickLoop(sh, mx, u, 0, Abs(x0 - mx), 1, 0, <<>>).seen

\* Cluster lists HarfBuzz can report for a left-to-right text of n characters:
\* indices ascending from 0 and below n, offsets not decreasing.
IndexSeqs(n) ==
    {ix \in UNION {[1..k -> 0..(n - 1)] : k \in 1..n} :
        /\ ix[1] = 0
        /\ \A j \in 1..(Len(ix) - 1) : ix[j] < ix[j + 1]}
OffsetSeqs(k) ==
    {xs \in [1..k -> 0..MaxOffset] : \A j \in 1..(k - 1) : xs[j] <= xs[j + 1]}

MkShaped(ix, xs, w, n, b) ==
    [clusters |-> [j \in 1..Len(ix) |-> [index |-> ix[j], xoffs |-> xs[j]]],
     width |-> w, size |-> n, box |-> b]

\* The empty text, which shapes to no cluster at all.
EmptyShaped == [clusters |-> <<>>, width |-> 0, size |-> 0, box |-> <<0, 0>>]
\* Four clusters at offsets 0, 10, 20, 30 for a text of three characters.
RoundTripShaped == MkShaped(<<0, 1, 2, 3>>, <<0, 10, 20, 30>>, 30, 3, <<0, 30>>)
\* One ligature of two characters, 10 wide.
LigatureShaped == MkShaped(<<0>>, <<0>>, 10, 2, <<0, 10>>)
\* One cluster of six characters (an emoji sequence), 6 wide.
LongClusterShaped == MkShaped(<<0>>, <<0>>, 6, 6, <<0, 6>>)
\* A ligature of three characters, 30 wide, followed by a letter.
ThreeSpanShaped == MkShaped(<<0, 3>>, <<0, 30>>, 40, 4, <<0, 40>>)

ShapedTexts ==
    UNION {UNION {{MkShaped(ix, xs, w, n, b) :
                      xs \in OffsetSeqs(Len(ix)),
                      w \in 0..MaxOffset,
                      b \in {<<0, 0>>, <<MaxInset, 2 * MaxInset + 1>>}}
                  : ix \in IndexSeqs(n)} : n \in 1..MaxLen}

\* The label is never narrower than the offset of its last cluster, and the
\* box is the label's width plus the padding.
CursorInit ==
    /\ shaped \in {EmptyShaped, RoundTripShaped, LigatureShaped, LongClusterShaped,
                   ThreeSpanShaped}
                  \cup {[sh EXCEPT !.box[2] = @ + sh.width] :
                           sh \in {t \in ShapedTexts :
                                     t.clusters[Len(t.clusters)].xoffs <= t.width}}
    /\ cursor \in 0..shaped.size
    /\ cursor_offs = -1
    /\ edit_click = <<>>
    /\ text = [i \in 1..shaped.size |-> "f"]
    /\ dirty = FALSE /\ hide_text = FALSE /\ thrown = FALSE

\* ---------------------------------------------------------------------------
\*  TextEdit: the text buffer (event_input, value, set_hide_text, draw)
\* ---------------------------------------------------------------------------
\* Characters a text is made of: a letter and a blank.
Chars == {"f", " "}
\* The whitespace that ends a word for Ctrl+Backspace (ws in event_input).
Ws == {" "}
\* The texts value() is handed: the empty one and rows of letters.
NewTexts == {[i \in 1..n |-> "f"] : n \in 0..MaxText}

\* The largest member of a non-empty set of numbers.
Max(S) == CHOOSE m \in S : \A k \in S : k <= m

\* Renderer::make_text as the shaper answers it: every glyph is GlyphAdvance
\* wide, a pair of letters forms one ligature glyph, and a hidden text is a
\* row of bullets, one glyph each.
RECURSIVE ShapeClusters(_, _, _, _)
ShapeClusters(t, hide, i, x) ==
    IF i > Len(t) THEN <<>>
    ELSE IF ~hide /\ i < Len(t) /\ t[i] = "f" /\ t[i + 1] = "f"
    THEN <<[index |-> i - 1, xoffs |-> x]>> \o ShapeClusters(t, hide, i + 2, x + GlyphAdvance)
    ELSE <<[index |-> i - 1, xoffs |-> x]>> \o ShapeClusters(t, hide, i + 1, x + GlyphAdvance)

\* The dirty branch of TextEdit::draw: the label and the clusters are those of
\* the text as it is now; the bounding box is left for TextBox::refresh.
Shape(t, hide, box) ==
    LET cl == ShapeClusters(t, hide, 1, 0)
    IN  [clusters |-> cl, width |-> Len(cl) * GlyphAdvance, size |-> Len(t), box |-> box]

\* segment.trim_back().drop_back_until_any(ws).size() for the segment
\* text[0, c): the blanks before the cursor are skipped, then the word before
\* them, up to and excluding the blank that precedes it.
WordStart(t, c) ==
    LET trimmed == Max({0} \cup {i \in 1..c : t[i] \notin Ws})
    IN  Max({0} \cup {i \in 1..trimmed : t[i] \in Ws})

\* std::u32string::insert(pos, str) and erase(pos, count) for pos <= size().
Insert(t, p, str) == SubSeq(t, 1, p) \o str \o SubSeq(t, p + 1, Len(t))
Erase(t, p, count) == SubSeq(t, 1, p) \o SubSeq(t, p + count + 1, Len(t))

\* The editable part of a TextEdit as [text, cursor, dirty, thrown].
Keys == {"Backspace", "Ctrl+Backspace", "Delete", "Left", "Right", "Home", "End",
         "Ctrl+V", "Shift+Insert", "V"}

\* Paste: SDL_HasClipboardText() is false for an empty clipboard.
Paste(e, clip) ==
    IF clip # <<>> THEN [e EXCEPT !.text = @ \o clip, !.dirty = TRUE] ELSE e

\* One iteration of the loop over input.kb_events. insert and erase throw
\* std::out_of_range for a position past the end; with the cursor past the
\* end Ctrl+Backspace reads past the buffer, which is undefined: ub is the
\* word start that read comes up with.
KeyEvent(e, key, clip, ub) ==
    IF e.thrown THEN e
    ELSE CASE key = "Ctrl+Backspace" ->
                LET p == IF e.cursor <= Len(e.text) THEN WordStart(e.text, e.cursor)
                         ELSE IF ub < e.cursor THEN ub ELSE e.cursor
                IN  IF p > Len(e.text) THEN [e EXCEPT !.thrown = TRUE]
                    ELSE [e EXCEPT !.text = Erase(@, p, e.cursor - p),
                                   !.cursor = p, !.dirty = TRUE]
           [] key = "Backspace" ->
                IF e.cursor = 0 THEN e
                ELSE IF e.cursor - 1 > Len(e.text)
                THEN [e EXCEPT !.cursor = @ - 1, !.thrown = TRUE]
                ELSE [e EXCEPT !.text = Erase(@, e.cursor - 1, 1),
                               !.cursor = @ - 1, !.dirty = TRUE]
           [] key = "Delete" ->
                IF e.cursor = Len(e.text) THEN e
                ELSE IF e.cursor > Len(e.text) THEN [e EXCEPT !.thrown = TRUE]
                ELSE [e EXCEPT !.text = Erase(@, e.cursor, 1), !.dirty = TRUE]
           [] key = "Left" -> [e EXCEPT !.cursor = IF @ - 1 > 0 THEN @ - 1 ELSE 0]
           [] key = "Right" ->
                [e EXCEPT !.cursor = IF Len(e.text) < @ + 1 THEN Len(e.text) ELSE @ + 1]
           [] key = "Home" -> [e EXCEPT !.cursor = 0]
           [] key = "End" -> [e EXCEPT !.cursor = Len(e.text)]
           [] key \in {"Ctrl+V", "Shift+Insert"} -> Paste(e, clip)
           [] OTHER -> e

\* The loop over input.kb_events.
RECURSIVE KeyEvents(_, _, _, _)
KeyEvents(e, kb_events, clip, ub) ==
    IF kb_events = <<>> THEN e
    ELSE KeyEvents(KeyEvent(e, Head(kb_events), clip, ub), Tail(kb_events), clip, ub)

\* The first statement of event_input: the typed text goes in at the cursor.
TextInput(e, text_input) ==
    IF text_input = <<>> THEN e
    ELSE IF e.cursor > Len(e.text) THEN [e EXCEPT !.thrown = TRUE, !.dirty = TRUE]
    ELSE [e EXCEPT !.text = Insert(@, e.cursor, text_input),
                   !.cursor = @ + Len(text_input), !.dirty = TRUE]

TextInputs == {<<>>} \cup {<<ch>> : ch \in Chars}
\* The key presses of one tick: none or a single one.
KeyEventLists == {<<>>} \cup {<<k>> : k \in Keys}
\* The clipboard is looked at by a paste only, and the word start read past
\* the buffer by a Ctrl+Backspace with the cursor past the end only.
Clipboards(kb_events) ==
    IF \E i \in 1..Len(kb_events) : kb_events[i] \in {"Ctrl+V", "Shift+Insert"}
    THEN {<<>>, <<"f">>} ELSE {<<>>}
WordStarts(kb_events) ==
    IF cursor > Len(text) /\ \E i \in 1..Len(kb_events) : kb_events[i] = "Ctrl+Backspace"
    THEN 0..MaxText ELSE {0}

\* TextBox::refresh, the width of sz, for a label of the given width in the
\* edited TextEdit, whose padding is MaxInset and whose min_wd is MinWd.
EditBoxWidth(label_width) == Max({MinWd, label_width}) + 2 * MaxInset

\* TextEdit::TextEdit: the text and the label are empty; the widget stands
\* at MaxInset and its box has no width until the first refresh.
EditInit ==
    /\ text = <<>> /\ dirty = FALSE /\ hide_text \in BOOLEAN /\ thrown = FALSE
    /\ shaped = [EmptyShaped EXCEPT !.box = <<MaxInset, 0>>]
    /\ cursor = 0 /\ cursor_offs = -1 /\ edit_click = <<>>

\* TextEdit::event_input with input.text_input, input.kb_events and the
\* clipboard as given.
EventInput(text_input, kb_events, clip, ub) ==
    LET e0 == [text |-> text, cursor |-> cursor, dirty |-> dirty, thrown |-> FALSE]
        e  == KeyEvents(TextInput(e0, text_input), kb_events, clip, ub)
    IN  /\ ~thrown
        /\ Len(e.text) <= MaxText
        /\ text' = e.text
        /\ cursor' = e.cursor
        /\ dirty' = e.dirty
        /\ thrown' = e.thrown
        /\ shaped' = [shaped EXCEPT !.size = Len(e.text)]
        /\ edit_click' = <<>>
        /\ UNCHANGED <<hide_text, cursor_offs, posVars, screenVars, groupVars, sysVars>>

Value_KeepsClean(new_text) ==
    /\ ~thrown
    /\ text' = new_text
    /\ shaped' = [shaped EXCEPT !.size = Len(new_text)]
    /\ edit_click' = <<>>
    /\ UNCHANGED <<dirty, cursor, hide_text, thrown, cursor_offs, posVars, screenVars, groupVars, sysVars>>

\* TextEdit::value(std::u32string new_text)
Value(new_text) ==
    /\ ~thrown
    /\ text' = new_text
    /\ dirty' = TRUE
    /\ shaped' = [shaped EXCEPT !.size = Len(new_text)]
    /\ edit_click' = <<>>
    /\ UNCHANGED <<cursor, hide_text, thrown, cursor_offs, posVars, screenVars, groupVars, sysVars>>

\* TextEdit::set_hide_text(bool hide)
SetHideText(hide) ==
    /\ ~thrown
    /\ hide_text' = hide
    /\ dirty' = TRUE
    /\ edit_click' = <<>>
    /\ UNCHANGED <<text, thrown, shaped, cursor, cursor_offs, posVars, screenVars, groupVars, sysVars>>

\* TextEdit::draw: a dirty text is shaped again, then the cursor is placed;
\* show stands for selected and (no_blink_ticks or r.blink_cursor()).
Draw(show) ==
    LET sh == IF dirty THEN Shape(text, hide_text, shaped.box) ELSE shaped
    IN  /\ ~thrown
        /\ shaped' = sh
        /\ dirty' = FALSE
        /\ cursor_offs' = IF show /\ sh.clusters # <<>>
                          THEN CursorOffs(sh, cursor) ELSE -1
        /\ edit_click' = <<>>
        /\ UNCHANGED <<text, cursor, hide_text, thrown, posVars, screenVars, groupVars, sysVars>>

\* TextBox::refresh, which TextEdit inherits: the box keeps its place (rpos)
\* and takes its width from the label as last shaped.
TextBoxRefresh ==
    /\ ~thrown
    /\ shaped' = [shaped EXCEPT !.box = <<shaped.box[1], EditBoxWidth(shaped.width)>>]
    /\ edit_click' = <<>>
    /\ UNCHANGED <<cursor, cursor_offs, editVars, posVars, screenVars, groupVars, sysVars>>

\* TextEdit::event_click with input.mouse.pos.x = mx.
EventClick(mx) ==
    /\ ~thrown
    /\ \E u \in DegenerateLerps :
          /\ cursor' = ClickCursor(shaped, mx, u)
          /\ edit_click' = <<[mx |-> mx, seen |-> ClickSeen(shaped, mx, u)]>>
    /\ UNCHANGED <<shaped, cursor_offs, editVars, posVars, screenVars, groupVars, sysVars>>

MouseXs == (TextPos(shaped) - 1)..(TextPos(shaped) + shaped.width + 1)

\* ---------------------------------------------------------------------------
\*  CardGroup
\* ---------------------------------------------------------------------------
\* Card::Scale: OtherPlayer, Field, Large.
OtherPlayer == 0
Field == 1
Large == 2
NumScales == 3
Scales == 0..(NumScales - 1)

\* Card::CardSize and CardGroup::CardGaps, indexed by scale.
CardSize(s) == <<<<60, 90>>, <<120, 180>>, <<240, 360>>>>[s + 1]
CardGaps(s) == <<5, 10, 20>>[s + 1]

\* The width wd that the autoscale loop computes for n cards at scale s.
RowWidth(n, s) == n * CardSize(s)[1] + (n - 1) * CardGaps(s)

\* TRIVIAL_CACHING_SETTER(Card, Scale, scale, scale_changed = true)
CardSetScale(c, s) ==
    IF c.scale = s THEN c
    ELSE [c EXCEPT !.scale = s, !.needs_refresh = TRUE, !.scale_changed = TRUE]

\* Card::refresh for a card whose parent has the bounding box pbox.
CardRefresh(c, pbox) ==
    [c EXCEPT !.box = [origin |-> RelativeXY(c.pos, pbox.origin, pbox.size, CardSize(c.scale)),
                       size |-> CardSize(c.scale)],
              !.scale_changed = FALSE]

\* Card::Card(parent, Position()) followed by set_id: a sound card asks for a
\* refresh, any other card is left as constructed.
NewCard(id) ==
    [id |-> id, scale |-> Field, scale_changed |-> TRUE,
     needs_refresh |-> (id = "SoundCard"),
     pos |-> MkPosition(0, 0, DefaultAnchor),
     box |-> [origin |-> <<0, 0>>, size |-> <<0, 0>>]]

AutoScale_FitsWhenEqual(s, scale, n, width) ==
    IF \E t \in Scales : t > scale /\ RowWidth(n, t) <= width
    THEN CHOOSE t \in Scales :
            /\ t > scale /\ RowWidth(n, t) <= width
            /\ \A v \in Scales : (v > scale /\ RowWidth(n, v) <= width) => v <= t
    ELSE scale

\* The while loop of CardGroup::refresh, entered with s = NumScales - 1.
RECURSIVE AutoScale(_, _, _, _)
AutoScale(s, scale, n, width) ==
    IF s = scale THEN s
    ELSE IF RowWidth(n, s) < width THEN s
    ELSE AutoScale(s - 1, scale, n, width)

ChooseScale_AlwaysAuto(g, n, width) == AutoScale(NumScales - 1, g.scale, n, width)

\* The scale CardGroup::refresh settles on.
ChooseScale(g, n, width) ==
    IF g.autoscale THEN AutoScale(NumScales - 1, g.scale, n, width) ELSE g.scale

RowSize_TrailingGap(n, s) == <<n * (CardSize(s)[1] + CardGaps(s)), CardSize(s)[2]>>

\* The Size sz of CardGroup::refresh: x has advanced by a card and a gap for
\* each of the n cards, and the last gap is taken off.
RowSize(n, s) == <<n * (CardSize(s)[1] + CardGaps(s)) - CardGaps(s), CardSize(s)[2]>>

\* The first loop over the cards in CardGroup::refresh.
PlaceCards(cs, s) ==
    [i \in 1..Len(cs) |->
        [CardSetScale(cs[i], s) EXCEPT
            !.pos = VCenter((i - 1) * (CardSize(s)[1] + CardGaps(s)), DefaultAnchor)]]

CardIds == {"SoundCard", "PowerCard"}
ParentSizes == {<<0, 0>>, <<300, 400>>}
\* Values for max_width: unset, the 300 of the documented example, and the
\* widths a full row takes at the two larger scales, exactly and plus one.
MaxWidths ==
    {0, 300} \cup {RowWidth(MaxCards, s) + d : s \in {Field, Large}, d \in {0, 1}}

\* CardGroup(parent, pos) with no cards, under a parent that has not been
\* laid out yet.
GroupInit ==
    /\ group = [scale |-> Field, max_width |-> 0, autoscale |-> FALSE,
                needs_refresh |-> FALSE, visible |-> TRUE,
                pos |-> Center(DefaultAnchor),
                box |-> [origin |-> <<0, 0>>, size |-> <<0, 0>>]]
    /\ cards = <<>>
    /\ parent_box = [origin |-> <<0, 0>>, size |-> <<0, 0>>]
    /\ layout = <<>>

\* CardGroup::add(CardId c)
Add(c) ==
    /\ Len(cards) < MaxCards
    /\ cards' = Append(cards, NewCard(c))
    /\ group' = [group EXCEPT !.needs_refresh = TRUE]
    /\ layout' = <<>>
    /\ UNCHANGED <<parent_box, posVars, screenVars, textVars, sysVars>>

SetScale_NoCache(s) ==
    /\ group' = [group EXCEPT !.scale = s, !.needs_refresh = TRUE]
    /\ layout' = <<>>
    /\ UNCHANGED <<cards, parent_box, posVars, screenVars, textVars, sysVars>>

\* TRIVIAL_CACHING_SETTER(CardGroup, Scale, scale)
SetScale(s) ==
    /\ group.scale # s
    /\ group' = [group EXCEPT !.scale = s, !.needs_refresh = TRUE]
    /\ layout' = <<>>
    /\ UNCHANGED <<cards, parent_box, posVars, screenVars, textVars, sysVars>>

\* TRIVIAL_CACHING_SETTER(CardGroup, i32, max_width)
SetMaxWidth(w) ==
    /\ group.max_width # w
    /\ group' = [group EXCEPT !.max_width = w, !.needs_refresh = TRUE]
    /\ layout' = <<>>
    /\ UNCHANGED <<cards, parent_box, posVars, screenVars, textVars, sysVars>>

\* TRIVIAL_CACHING_SETTER(CardGroup, bool, autoscale)
SetAutoscale(a) ==
    /\ group.autoscale # a
    /\ group' = [group EXCEPT !.autoscale = a, !.needs_refresh = TRUE]
    /\ layout' = <<>>
    /\ UNCHANGED <<cards, parent_box, posVars, screenVars, textVars, sysVars>>

\* Assignment to the public member Widget::visible of the group.
SetGroupVisible(v) ==
    /\ group.visible # v
    /\ group' = [group EXCEPT !.visible = v]
    /\ layout' = <<>>
    /\ UNCHANGED <<cards, parent_box, posVars, screenVars, textVars, sysVars>>

\* TextBox::TextBox(parent, label, placeholder, pos, padding, min_wd, min_ht):
\* the box is the default AABB and UpdateText asks for a refresh.
TextBox(label_width, padding, min_wd) ==
    [Widget(FALSE, BoxAt(0, 0), TRUE) EXCEPT
        !.kind = "TextBox", !.padding = padding, !.min_wd = min_wd,
        !.label_width = label_width]

\* Button::Button(parent, label, pos, padding = 3, min_wd = 125)
Button(label_width) == TextBox(label_width, 3, 125)

\* TextEdit::TextEdit(parent, pos, placeholder, padding = 3, min_wd = 250):
\* the label is empty and the widget is selectable.
TextEdit == [TextBox(0, 3, 250) EXCEPT !.selectable = TRUE]

\* Card::Card(parent, pos): scale is Field; scale_changed is set, nothing
\* asks for a refresh.
Card == [Widget(FALSE, BoxAt(0, 0), FALSE) EXCEPT !.kind = "Card", !.scale = Field]

\* CardGroup::CardGroup(parent, pos) followed by ncards calls of add(), each
\* of which asks for a refresh; scale is Field, autoscale off.
CardGroup(ncards) ==
    [Widget(FALSE, BoxAt(0, 0), ncards > 0) EXCEPT
        !.kind = "CardGroup", !.scale = Field, !.ncards = ncards]

ShouldRefresh_ResizeVisibleOnly(e, same_size) ==
    IF same_size THEN e.needs_refresh ELSE e.visible

ShouldRefresh_FastPathChecksVisible(e, same_size) ==
    IF same_size THEN e.visible /\ e.needs_refresh ELSE e.visible \/ e.needs_refresh

\* Screen::refresh, the condition under which a child is refreshed.
ShouldRefresh(e, same_size) ==
    IF same_size THEN e.needs_refresh ELSE e.visible \/ e.needs_refresh

\* The left edge of a child that stands at Position(0, 0) with the default
\* anchor, as Position::relative answers it for a parent at the origin.
ChildX(parent_size, object_size) ==
    RelativeXY(MkPosition(0, 0, DefaultAnchor), <<0, 0>>, parent_size, object_size)[1]

\* TextBox::refresh, the width of sz.
TextBoxWidth(e) == Max({e.min_wd, e.label_width}) + 2 * e.padding

\* e->refresh(r), the virtual call of Screen::refresh, for a child of a
\* screen of the given size: TextBox::refresh, Card::refresh and
\* CardGroup::refresh end in SetBoundingBox, a CardGroup without cards
\* returns before it, and Element::refresh and Label::refresh leave the box.
ElementRefresh(e, size) ==
    CASE e.kind = "TextBox" ->
            [e EXCEPT !.bounding_box =
                BoxAt(ChildX(size, <<Max(e.bounding_box), 0>>), TextBoxWidth(e))]
      [] e.kind = "Card" ->
            [e EXCEPT !.bounding_box =
                BoxAt(ChildX(size, CardSize(e.scale)), CardSize(e.scale)[1])]
      [] e.kind = "CardGroup" /\ e.ncards > 0 ->
            [e EXCEPT !.bounding_box =
                BoxAt(ChildX(size, RowSize(e.ncards, e.scale)),
                      RowSize(e.ncards, e.scale)[1])]
      [] OTHER -> e

\* Screen::refresh, either loop over children: children from index i on.
\* size is the screen's bounding box, set before the loop.
RECURSIVE RefreshChildren(_, _, _, _, _)
RefreshChildren(i, ch, log, same_size, size) ==
    IF i > Len(ch) THEN [children |-> ch, log |-> log]
    ELSE IF ShouldRefresh(ch[i], same_size)
         THEN RefreshChildren(i + 1,
                  [ch EXCEPT ![i] = ElementRefresh([ch[i] EXCEPT !.needs_refresh = FALSE], size)],
                  Append(log, i), same_size, size)
         ELSE RefreshChildren(i + 1, ch, log, same_size, size)

\* Screen::refresh(Renderer& r)
Refresh ==
    LET r == RefreshChildren(1, children, <<>>, prev_size = renderer_size, renderer_size)
    IN  /\ screen_box' = renderer_size
        /\ prev_size' = renderer_size
        /\ children' = r.children
        /\ refresh_log' = r.log
        /\ UNCHANGED <<renderer_size, posVars, tickVars, widgetVars, sysVars>>

\* Screens whose children are a TextBox (child 1: a bare text box or a
\* button) and a Label (child 2), both constructed with the empty text: the
\* constructors call UpdateText and update_text.
LabelTexts == {"", "a"}
LabelScreens ==
    {<<tb, Widget(FALSE, BoxAt(0, 0), TRUE)>> : tb \in {TextBox(0, 0, 0), Button(0)}}

\* ShapedText::width of a label as the shaper answers it: every glyph is
\* GlyphAdvance wide.
LabelWidth(t) == GlyphAdvance * Len(t)

\* TextBox::UpdateText(ShapedText new_text): the label is replaced, and with
\* it the width that the next refresh reads.
UpdateText(new_text) ==
    /\ labels' = [labels EXCEPT ![1] = new_text]
    /\ children' = [children EXCEPT ![1].needs_refresh = TRUE,
                                    ![1].label_width = LabelWidth(new_text)]
    /\ UNCHANGED <<posVars, tickVars, refreshVars, widgetVars, loopVars, threadVars, val_in, val_out>>

\* Label::update_text(std::string new_text)
update_text(new_text) ==
    /\ labels' = [labels EXCEPT ![2] = new_text]
    /\ children' = [children EXCEPT ![2].needs_refresh = TRUE]
    /\ UNCHANGED <<posVars, tickVars, refreshVars, widgetVars, loopVars, threadVars, val_in, val_out>>

\* TextBox::UpdateText(ShapedText new_text) on child i of the screen.
ElementUpdateText(i, new_text) ==
    /\ i \in 1..Len(children)
    /\ children[i].kind = "TextBox"
    /\ children' = [children EXCEPT ![i].needs_refresh = TRUE,
                                    ![i].label_width = LabelWidth(new_text)]
    /\ refresh_log' = <<>>
    /\ UNCHANGED <<posVars, tickVars, screen_box, prev_size, renderer_size, widgetVars, sysVars>>

\* TRIVIAL_CACHING_SETTER(Card, Scale, scale, ...) and
\* TRIVIAL_CACHING_SETTER(CardGroup, Scale, scale) on child i of the screen.
ElementSetScale(i, s) ==
    /\ i \in 1..Len(children)
    /\ children[i].kind \in {"Card", "CardGroup"}
    /\ children[i].scale # s
    /\ children' = [children EXCEPT ![i].needs_refresh = TRUE, ![i].scale = s]
    /\ refresh_log' = <<>>
    /\ UNCHANGED <<posVars, tickVars, screen_box, prev_size, renderer_size, widgetVars, sysVars>>

\* CardGroup::add(CardId c) on child i of the screen.
ElementAdd(i) ==
    /\ i \in 1..Len(children)
    /\ children[i].kind = "CardGroup"
    /\ children[i].ncards < MaxRow
    /\ children' = [children EXCEPT ![i].needs_refresh = TRUE, ![i].ncards = @ + 1]
    /\ refresh_log' = <<>>
    /\ UNCHANGED <<posVars, tickVars, screen_box, prev_size, renderer_size, widgetVars, sysVars>>

\* CardGroup::refresh(Renderer& r) of the group g with the cards cs under a
\* parent whose bounding box is pbox. It returns at once on an empty group and
\* never writes needs_refresh. layout records the locals width and s.
GroupRefreshed(g, cs, pbox) ==
    IF cs = <<>>
    THEN [group |-> g, cards |-> cs, layout |-> <<>>]
    ELSE LET width == IF g.max_width # 0 THEN g.max_width ELSE g.box.size[1]
             s     == ChooseScale(g, Len(cs), width)
             sz    == RowSize(Len(cs), s)
             box   == [origin |-> RelativeXY(g.pos, pbox.origin, pbox.size, sz),
                       size |-> sz]
             placed == PlaceCards(cs, s)
         IN  [group |-> [g EXCEPT !.box = box],
              cards |-> [i \in 1..Len(cs) |-> CardRefresh(placed[i], box)],
              layout |-> <<[width |-> width, s |-> s]>>]

\* A direct call of the public CardGroup::refresh: the group is laid out and
\* its needs_refresh stays as it was.
CardGroupRefresh ==
    LET r == GroupRefreshed(group, cards, parent_box)
    IN  /\ group' = r.group
        /\ cards' = r.cards
        /\ layout' = r.layout
        /\ UNCHANGED <<parent_box, posVars, screenVars, textVars, sysVars>>

\* Screen::refresh of the parent at the size it had: 'if (e->needs_refresh)'
\* it clears the group's flag and then calls CardGroup::refresh. On a group
\* that has not asked for a refresh the call changes nothing.
GroupRefresh ==
    LET r == GroupRefreshed([group EXCEPT !.needs_refresh = FALSE], cards, parent_box)
    IN  /\ group.needs_refresh
        /\ group' = r.group
        /\ cards' = r.cards
        /\ layout' = r.layout
        /\ UNCHANGED <<parent_box, posVars, screenVars, textVars, sysVars>>

\* Screen::refresh of the parent after the window was resized: the parent
\* takes the new size and, in the same call, refreshes the group if it is
\* visible or has asked for a refresh.
SetParentBox(size) ==
    LET pbox == [parent_box EXCEPT !.size = size]
        r    == GroupRefreshed([group EXCEPT !.needs_refresh = FALSE], cards, pbox)
    IN  /\ parent_box.size # size
        /\ parent_box' = pbox
        /\ IF ShouldRefresh(group, FALSE)
           THEN group' = r.group /\ cards' = r.cards /\ layout' = r.layout
           ELSE UNCHANGED <<group, cards>> /\ layout' = <<>>
        /\ UNCHANGED <<posVars, screenVars, textVars, sysVars>>

\* ---------------------------------------------------------------------------
\*  InputSystem: process_events and game_loop
\* ---------------------------------------------------------------------------
\* constexpr chr::milliseconds ClientTickDuration = 16ms
ClientTickDuration == 16

\* MouseState{}: the default member initialisers.
NoMouse == [pos |-> 0, left |-> FALSE, right |-> FALSE, middle |-> FALSE]

\* InputSystem::InputSystem, and game_loop about to be entered.
LoopInit ==
    /\ input = [quit |-> FALSE, mouse |-> NoMouse, kb_events |-> <<>>,
                text_input |-> <<>>]
    /\ loop_pc = "test"
    /\ polled = <<>>
    /\ loop_log = <<>>

\* An SDL_Event as process_events reads it: type, button.button, key.key and
\* text.text, the members that do not belong to the type left empty. A text
\* is the sequence of its code points.
Quit == [type |-> "SDL_EVENT_QUIT", button |-> "", key |-> "", text |-> <<>>]
MouseMotion == [type |-> "SDL_EVENT_MOUSE_MOTION", button |-> "", key |-> "", text |-> <<>>]
ButtonDown(b) ==
    [type |-> "SDL_EVENT_MOUSE_BUTTON_DOWN", button |-> b, key |-> "", text |-> <<>>]
KeyDown(k) == [type |-> "SDL_EVENT_KEY_DOWN", button |-> "", key |-> k, text |-> <<>>]
TextEvent(t) == [type |-> "SDL_EVENT_TEXT_INPUT", button |-> "", key |-> "", text |-> t]

PollEvent_KeyFront(in, event) ==
    CASE event.type = "SDL_EVENT_QUIT" -> [in EXCEPT !.quit = TRUE]
      [] event.type = "SDL_EVENT_MOUSE_BUTTON_DOWN" ->
            [in EXCEPT !.mouse.left = @ \/ event.button = "SDL_BUTTON_LEFT",
                       !.mouse.right = @ \/ event.button = "SDL_BUTTON_RIGHT",
                       !.mouse.middle = @ \/ event.button = "SDL_BUTTON_MIDDLE"]
      [] event.type = "SDL_EVENT_KEY_DOWN" ->
            [in EXCEPT !.kb_events = <<event.key>> \o @]
      [] event.type = "SDL_EVENT_TEXT_INPUT" ->
            [in EXCEPT !.text_input = @ \o event.text]
      [] OTHER -> in

\* The switch of process_events on one event. Any other type changes
\* nothing. A kb_events entry is the key of the event (the modifiers, which
\* are stored next to it, are left out).
PollEvent(in, event) ==
    CASE event.type = "SDL_EVENT_QUIT" -> [in EXCEPT !.quit = TRUE]
      [] event.type = "SDL_EVENT_MOUSE_BUTTON_DOWN" ->
            [in EXCEPT !.mouse.left = @ \/ event.button = "SDL_BUTTON_LEFT",
                       !.mouse.right = @ \/ event.button = "SDL_BUTTON_RIGHT",
                       !.mouse.middle = @ \/ event.button = "SDL_BUTTON_MIDDLE"]
      [] event.type = "SDL_EVENT_KEY_DOWN" ->
            [in EXCEPT !.kb_events = Append(@, event.key)]
      [] event.type = "SDL_EVENT_TEXT_INPUT" ->
            [in EXCEPT !.text_input = @ \o event.text]
      [] OTHER -> in

\* The while (SDL_PollEvent(&event)) loop over the events pending, from the
\* i-th on.
RECURSIVE PollEvents(_, _, _)
PollEvents(in, events, i) ==
    IF i > Len(events) THEN in
    ELSE PollEvents(PollEvent(in, events[i]), events, i + 1)

ProcessEvents_KeepMouse(events, p) ==
    PollEvents([input EXCEPT !.mouse.pos = p, !.kb_events = <<>>,
                             !.text_input = <<>>], events, 1)

\* InputSystem::process_events with the events pending and the mouse at p:
\* the input the call leaves.
ProcessEvents(events, p) ==
    PollEvents([input EXCEPT !.mouse = [NoMouse EXCEPT !.pos = p],
                             !.kb_events = <<>>, !.text_input = <<>>], events, 1)

LoopTest_IgnoreQuit ==
    /\ loop_pc = "test"
    /\ loop_pc' = "poll"
    /\ loop_log' = <<>>
    /\ UNCHANGED <<input, polled, posVars, screenVars, widgetVars, threadVars, extVars>>

\* game_loop: while (not quit)
LoopTest ==
    /\ loop_pc = "test"
    /\ loop_pc' = IF input.quit THEN "returned" ELSE "poll"
    /\ loop_log' = <<>>
    /\ UNCHANGED <<input, polled, posVars, screenVars, widgetVars, threadVars, extVars>>

LoopPoll_BreakOnQuit(events, p) ==
    /\ loop_pc = "poll"
    /\ input' = ProcessEvents(events, p)
    /\ polled' = events
    /\ loop_pc' = IF input'.quit THEN "test" ELSE "tick"
    /\ UNCHANGED <<loop_log, posVars, screenVars, widgetVars, threadVars, extVars>>

\* game_loop: process_events()
LoopPoll(events, p) ==
    /\ loop_pc = "poll"
    /\ input' = ProcessEvents(events, p)
    /\ polled' = events
    /\ loop_pc' = "tick"
    /\ UNCHANGED <<loop_log, posVars, screenVars, widgetVars, threadVars, extVars>>

\* game_loop: tick(), the callback being the tick of the screen shown.
LoopTick ==
    /\ loop_pc = "tick"
    /\ TickBody([left |-> input.mouse.left, pos |-> input.mouse.pos])
    /\ loop_pc' = "end"
    /\ UNCHANGED <<input, polled, loop_log, posVars, refreshVars, widgetVars, threadVars, extVars>>

EndOfTick_WaitAtBudget(d) ==
    IF d <= ClientTickDuration
    THEN [d |-> d, wait |-> <<ClientTickDuration - d>>, overrun |-> <<>>]
    ELSE [d |-> d, wait |-> <<>>, overrun |-> <<d>>]

\* game_loop from end_of_tick on, d being tick_duration in milliseconds: the
\* call of SDL_WaitEventTimeout or of Log it makes.
EndOfTick(d) ==
    IF d < ClientTickDuration
    THEN [d |-> d, wait |-> <<ClientTickDuration - d>>, overrun |-> <<>>]
    ELSE [d |-> d, wait |-> <<>>, overrun |-> <<d>>]

\* game_loop: the end of an iteration that took d milliseconds.
LoopEnd(d) ==
    /\ loop_pc = "end"
    /\ loop_log' = <<EndOfTick(d)>>
    /\ loop_pc' = "test"
    /\ UNCHANGED <<input, polled, posVars, screenVars, widgetVars, threadVars, extVars>>

\* Events SDL hands out, the queues pending at a poll, the positions of the
\* mouse (inside both boxes, outside both) and the durations of an iteration.
EventTypes == {Quit, ButtonDown("SDL_BUTTON_LEFT"), ButtonDown("SDL_BUTTON_MIDDLE"),
               KeyDown("SDLK_A"), MouseMotion}
EventQueues == UNION {[1..n -> EventTypes] : n \in 0..MaxEvents}
LoopPoints == {0, MaxMouse}
Durations == 0..MaxElapsed

\* The screen the loop ticks: two selectable widgets, one over the other.
LoopScreen == <<Widget(TRUE, 0..0, FALSE), Widget(TRUE, 0..(MaxMouse - 1), FALSE)>>

\* ---------------------------------------------------------------------------
\*  pr::Thread
\* ---------------------------------------------------------------------------
\* Error("Thread was aborted"), the value the n-th callable returns, and a
\* result that value() has moved from.
Aborted == [is |-> "Thread was aborted", n |-> 0]
ResultOf(n) == [is |-> "value", n |-> n]
MovedFrom == [is |-> "moved from", n |-> 0]

\* Thread::Thread(): the default member initialisers, no thread attached.
ThreadInit ==
    /\ run_flag = FALSE
    /\ thread_result = Aborted
    /\ thread = [joinable |-> FALSE, stop_requested |-> FALSE]
    /\ start_pc = "idle"
    /\ worker = "none"
    /\ starts = 0
    /\ thread_call = <<>>

\* Thread::running
running == run_flag

\* Thread::start entered while running(): the Assert fails and the program
\* is aborted.
StartAssert ==
    /\ start_pc = "idle"
    /\ running
    /\ start_pc' = "aborted"
    /\ thread_call' = <<[call |-> "start", asserted |-> TRUE, ret |-> <<>>]>>
    /\ UNCHANGED <<run_flag, thread_result, thread, worker, starts,
                   posVars, screenVars, widgetVars, loopVars, extVars>>

\* Thread::start up to the construction of the std::jthread: the result is
\* reset, the thread before, if still attached, is joined by the move
\* assignment, and the new worker begins to run.
StartSpawn ==
    /\ start_pc = "idle"
    /\ ~running
    /\ starts < MaxStarts
    /\ thread.joinable => worker = "done"
    /\ thread_result' = Aborted
    /\ thread' = [joinable |-> TRUE, stop_requested |-> FALSE]
    /\ worker' = "invoke"
    /\ starts' = starts + 1
    /\ start_pc' = "spawned"
    /\ thread_call' = <<[call |-> "start", asserted |-> FALSE, ret |-> <<>>]>>
    /\ UNCHANGED <<run_flag, posVars, screenVars, widgetVars, loopVars, extVars>>

\* Thread::start, its last statement: run_flag.store(true, release).
StartStore ==
    /\ start_pc = "spawned"
    /\ run_flag' = TRUE
    /\ start_pc' = "idle"
    /\ UNCHANGED <<thread_result, thread, worker, starts, thread_call,
                   posVars, screenVars, widgetVars, loopVars, extVars>>

\* The worker: result = std::invoke(callable, args..., stop).
WorkerInvoke ==
    /\ worker = "invoke"
    /\ thread_result' = ResultOf(starts)
    /\ worker' = "written"
    /\ UNCHANGED <<run_flag, thread, start_pc, starts, thread_call,
                   posVars, screenVars, widgetVars, loopVars, extVars>>

WorkerFinish_BeforeResult ==
    /\ worker \in {"invoke", "written"}
    /\ run_flag' = FALSE
    /\ worker' = "done"
    /\ UNCHANGED <<thread_result, thread, start_pc, starts, thread_call,
                   posVars, screenVars, widgetVars, loopVars, extVars>>

\* The worker: run_flag.store(false, release), after which it ends.
WorkerFinish ==
    /\ worker = "written"
    /\ run_flag' = FALSE
    /\ worker' = "done"
    /\ UNCHANGED <<thread_result, thread, start_pc, starts, thread_call,
                   posVars, screenVars, widgetVars, loopVars, extVars>>

\* Thread::stop_and_release: request_stop() succeeds for an attached thread
\* that was not asked to stop before, and the thread is then detached.
StopAndRelease ==
    /\ start_pc = "idle"
    /\ thread' = IF thread.joinable /\ ~thread.stop_requested
                 THEN [joinable |-> FALSE, stop_requested |-> TRUE]
                 ELSE thread
    /\ thread_call' = <<[call |-> "stop_and_release", asserted |-> FALSE, ret |-> <<>>]>>
    /\ UNCHANGED <<run_flag, thread_result, start_pc, worker, starts,
                   posVars, screenVars, widgetVars, loopVars, extVars>>

\* A call of Thread::running by the owner of the Thread.
Running ==
    /\ start_pc = "idle"
    /\ thread_call' = <<[call |-> "running", asserted |-> FALSE, ret |-> <<running>>]>>
    /\ UNCHANGED <<run_flag, thread_result, thread, start_pc, worker, starts,
                   posVars, screenVars, widgetVars, loopVars, extVars>>

\* Thread::value: the Assert fails while running(), else the result is moved
\* out.
ThreadValue ==
    /\ start_pc = "idle"
    /\ IF running
       THEN /\ start_pc' = "aborted"
            /\ thread_call' = <<[call |-> "value", asserted |-> TRUE, ret |-> <<>>]>>
            /\ UNCHANGED thread_result
       ELSE /\ thread_call' = <<[call |-> "value", asserted |-> FALSE, ret |-> <<thread_result>>]>>
            /\ thread_result' = MovedFrom
            /\ UNCHANGED start_pc
    /\ UNCHANGED <<run_flag, thread, worker, starts,
                   posVars, screenVars, widgetVars, loopVars, extVars>>

\* ---------------------------------------------------------------------------
\*  pr::validation over the card database
\* ---------------------------------------------------------------------------
\* enum struct CardId, in declaration order; the value of an enumerator is its
\* index minus one. IPA letters are written S (esh), Z (ezh), L (small capital
\* l), J (palatal nasal), N (eng), 1 (barred i), U (upsilon), E (epsilon),
\* schwa, 3 (reversed epsilon), O (open o), ae (ash), A (script a).
CardId ==
    <<"C_p", "C_b", "C_t", "C_d", "C_tS", "C_dZ", "C_k", "C_g", "C_f", "C_v", "C_s",
      "C_z", "C_S", "C_Z", "C_h", "C_w", "C_r", "C_j", "C_L", "C_m", "C_n", "C_J",
      "C_N",
      "V_i", "V_y", "V_1", "V_u", "V_U", "V_e", "V_E", "V_schwa", "V_3", "V_o", "V_O",
      "V_ae", "V_a", "V_A",
      "P_SpellingReform", "P_Descriptivism", "P_Nope", "P_Babel", "P_Superstratum",
      "P_Substratum", "P_Whorf", "P_REA", "P_Heffer", "P_GVS", "P_Darija", "P_Brasil",
      "P_Gvprtskvni", "P_Reconstruction", "P_LinguaFranca", "P_Chomsky", "P_Pinker",
      "P_Campbell", "P_Schleicher", "P_Schleyer", "P_Grimm", "P_Vajda", "P_Zamnenhoff",
      "P_Owl", "P_Revival", "P_Rosetta", "P_Urheimat", "P_ProtoWorld", "P_Vernacular",
      "P_Epenthesis", "P_Elision", "P_Assimilation", "P_Dissimilation", "P_Regression">>

Id(name) == (CHOOSE i \in 1..Len(CardId) : CardId[i] = name) - 1

ConsonantStart == Id("C_p")
ConsonantEnd == Id("C_N")
PowersStart == Id("P_SpellingReform")
PowersEnd == Id("P_Regression")

\* CardData::Sound and CardData::Power: the members the validation reads.
Sound(id, place, manner, converts_to) ==
    [id |-> Id(id), type |-> "SoundCard", place_or_frontness |-> place,
     manner_or_height |-> manner,
     converts_to |-> [k \in 1..Len(converts_to) |->
                        [j \in 1..Len(converts_to[k]) |-> Id(converts_to[k][j])]]]

Power(id) ==
    [id |-> id, type |-> "PowerCard", place_or_frontness |-> 0,
     manner_or_height |-> 0, converts_to |-> <<>>]

\* CardDatabaseImpl: the entry at index +id, for the sounds as written (the
\* entry of C_w is made with the id C_f), for the powers by their index.
CardDatabaseImpl ==
    <<Sound("C_p", 4, 4, <<<<"C_m">>>>),  Sound("C_b", 4, 4, <<<<"C_m">>>>),
      Sound("C_t", 3, 4, <<<<"C_n">>>>),  Sound("C_d", 3, 4, <<<<"C_n">>>>),
      Sound("C_tS", 2, 4, <<<<"C_J">>>>), Sound("C_dZ", 2, 4, <<<<"C_J">>>>),
      Sound("C_k", 1, 4, <<<<"C_N">>>>),  Sound("C_g", 1, 4, <<<<"C_N">>>>),
      Sound("C_f", 4, 3, <<<<"C_h">>>>),  Sound("C_v", 4, 3, <<>>),
      Sound("C_s", 3, 3, <<>>),           Sound("C_z", 3, 3, <<>>),
      Sound("C_S", 2, 3, <<>>),           Sound("C_Z", 2, 3, <<>>),
      Sound("C_h", 1, 3, <<<<"C_f">>>>),
      Sound("C_f", 4, 2, <<<<"C_L">>, <<"V_u", "V_u">>>>),
      Sound("C_r", 3, 2, <<>>),           Sound("C_j", 2, 2, <<<<"V_i", "V_i">>>>),
      Sound("C_L", 1, 2, <<<<"C_w">>>>),
      Sound("C_m", 4, 1, <<<<"C_p">>>>),  Sound("C_n", 3, 1, <<<<"C_t">>>>),
      Sound("C_J", 2, 1, <<<<"C_tS">>>>), Sound("C_N", 1, 1, <<<<"C_k">>>>),
      Sound("V_i", 3, 3, <<<<"C_j", "C_j">>>>), Sound("V_y", 3, 3, <<>>),
      Sound("V_1", 3, 2, <<>>),
      Sound("V_u", 3, 1, <<<<"C_w", "C_w">>>>), Sound("V_U", 3, 1, <<>>),
      Sound("V_e", 2, 3, <<>>),           Sound("V_E", 2, 3, <<>>),
      Sound("V_schwa", 2, 2, <<>>),       Sound("V_3", 2, 2, <<>>),
      Sound("V_o", 2, 1, <<>>),           Sound("V_O", 2, 1, <<>>),
      Sound("V_ae", 1, 3, <<>>),          Sound("V_a", 1, 2, <<>>),
      Sound("V_A", 1, 1, <<>>)>>
    \o [k \in 1..(PowersEnd - PowersStart + 1) |-> Power(PowersStart + k - 1)]

\* CardDatabase[+id]
CardDatabase(id) == CardDatabaseImpl[id + 1]

\* CardData::is_consonant
is_consonant(card) == ConsonantStart <= card.id /\ card.id <= ConsonantEnd

\* pr::IsConsonant(CardId id)
IsConsonant(id) == is_consonant(CardDatabase(id))

\* rgs::sort on a Word: insertion of the head into the sorted tail.
RECURSIVE Sort(_)
Sort(w) ==
    IF w = <<>> THEN <<>>
    ELSE LET rest == Sort(Tail(w))
             below == SelectSeq(rest, LAMBDA c : c < Head(w))
             above == SelectSeq(rest, LAMBDA c : c >= Head(w))
         IN  below \o <<Head(w)>> \o above

\* vws::chunk_by(word, same class): the chunks of w, after those in chunks.
RECURSIVE ChunkBy(_, _)
ChunkBy(w, chunks) ==
    IF w = <<>> THEN chunks
    ELSE LET n == Len(chunks)
         IN  IF n > 0 /\ IsConsonant(chunks[n][Len(chunks[n])]) = IsConsonant(Head(w))
             THEN ChunkBy(Tail(w), [chunks EXCEPT ![n] = Append(@, Head(w))])
             ELSE ChunkBy(Tail(w), Append(chunks, <<Head(w)>>))

ValidateInitialWord_ChunksOfThree(word, original) ==
    LET chunks == ChunkBy(word, <<>>)
    IN  IF Sort(word) # Sort(original) THEN "NotAPermutation"
        ELSE IF \E k \in 1..Len(chunks) : Len(chunks[k]) > 3 THEN "ClusterTooLong"
        ELSE IF /\ IsConsonant(word[1]) /\ IsConsonant(word[2])
                /\ CardDatabase(word[1]).manner_or_height <= 2
        THEN "BadInitialClusterManner"
        ELSE IF /\ IsConsonant(word[1]) /\ IsConsonant(word[2])
                /\ CardDatabase(word[1]).manner_or_height
                        = CardDatabase(word[2]).manner_or_height
                /\ CardDatabase(word[1]).place_or_frontness
                        = CardDatabase(word[2]).place_or_frontness
        THEN "BadInitialClusterCoordinates"
        ELSE "Valid"

\* pr::validation::ValidateInitialWord(word, original); word[0] and word[1]
\* are the first and the second element.
ValidateInitialWord(word, original) ==
    LET chunks == ChunkBy(word, <<>>)
    IN  IF Sort(word) # Sort(original) THEN "NotAPermutation"
        ELSE IF \E k \in 1..Len(chunks) : Len(chunks[k]) > 2 THEN "ClusterTooLong"
        ELSE IF /\ IsConsonant(word[1]) /\ IsConsonant(word[2])
                /\ CardDatabase(word[1]).manner_or_height <= 2
        THEN "BadInitialClusterManner"
        ELSE IF /\ IsConsonant(word[1]) /\ IsConsonant(word[2])
                /\ CardDatabase(word[1]).manner_or_height
                        = CardDatabase(word[2]).manner_or_height
                /\ CardDatabase(word[1]).place_or_frontness
                        = CardDatabase(word[2]).place_or_frontness
        THEN "BadInitialClusterCoordinates"
        ELSE "Valid"

\* on[i] for the span on, i counted from 0.
At(on, i) == on[i + 1]

\* The first test of ValidatePlaySoundCard, and the indices of the span that
\* evaluating it subscripts (and and or do not evaluate their right operand
\* when the left one decides).
PlayedNextTo(played, on, at) ==
    /\ At(on, at) = Id("C_h") \/ At(on, at) = Id("V_schwa")
    /\ \/ at > 0 /\ At(on, at - 1) = played
       \/ at < Len(on) - 1 /\ At(on, at + 1) = played

SpanReads(played, on, at) ==
    {at}
    \cup (IF At(on, at) = Id("C_h") \/ At(on, at) = Id("V_schwa")
          THEN (IF at > 0 THEN {at - 1} ELSE {})
               \cup (IF ~(at > 0 /\ At(on, at - 1) = played) /\ at < Len(on) - 1
                     THEN {at + 1} ELSE {})
          ELSE {})

\* The loop over converts_to from the k-th conversion on: what it returns, or
\* "none" when it runs to the end.
RECURSIVE SpecialChange(_, _, _)
SpecialChange(played, converts_to, k) ==
    IF k > Len(converts_to) THEN "none"
    ELSE IF played = converts_to[k][1]
         THEN (IF Len(converts_to[k]) > 1 THEN "NeedsOtherCard" ELSE "Valid")
         ELSE SpecialChange(played, converts_to, k + 1)

ValidatePlaySoundCard_ChangeIsValid(played, on, at) ==
    LET target == CardDatabase(At(on, at))
        special == SpecialChange(played, target.converts_to, 1)
    IN  IF PlayedNextTo(played, on, at) THEN "Valid"
        ELSE IF special # "none" THEN "Valid"
        ELSE IF /\ IsConsonant(played) = IsConsonant(At(on, at))
                /\ Abs(CardDatabase(played).place_or_frontness - target.place_or_frontness)
                    + Abs(CardDatabase(played).manner_or_height - target.manner_or_height) < 2
                /\ played # At(on, at)
        THEN "Valid"
        ELSE "Invalid"

\* pr::validation::ValidatePlaySoundCard(played, on, at)
ValidatePlaySoundCard(played, on, at) ==
    LET target == CardDatabase(At(on, at))
        special == SpecialChange(played, target.converts_to, 1)
    IN  IF PlayedNextTo(played, on, at) THEN "Valid"
        ELSE IF special # "none" THEN special
        ELSE IF /\ IsConsonant(played) = IsConsonant(At(on, at))
                /\ Abs(CardDatabase(played).place_or_frontness - target.place_or_frontness)
                    + Abs(CardDatabase(played).manner_or_height - target.manner_or_height) < 2
                /\ played # At(on, at)
        THEN "Valid"
        ELSE "Invalid"

\* The sounds words are made of: two stops at the same coordinates, a nasal
\* (manner 1), an approximant (manner 2) and a vowel.
WordSounds == {Id("C_p"), Id("C_b"), Id("C_m"), Id("V_i")}
Words == [1..WordSize -> WordSounds]

\* The cards played and played on: /h/ and schwa, sounds with a one-card and
\* a two-card change, neighbours on the chart and sounds far apart.
PlaySounds ==
    {Id("C_h"), Id("V_schwa"), Id("C_f"), Id("C_v"), Id("C_w"), Id("V_u"), Id("V_1")}
Spans == UNION {[1..n -> PlaySounds] : n \in 1..MaxOn}

WordCalls ==
    [fn : {"ValidateInitialWord"}, word : Words, original : Words,
     played : {0}, on : {<<>>}, at : {0}]
PlayCalls ==
    {[fn |-> "ValidatePlaySoundCard", word |-> <<>>, original |-> <<>>,
      played |-> c, on |-> on, at |-> at] :
        c \in PlaySounds, on \in Spans, at \in 0..(MaxOn - 1)}

ValInit ==
    /\ val_in \in {<<call>> : call \in {c \in WordCalls \cup PlayCalls : c.at < Len(c.on) \/ c.on = <<>>}}
    /\ val_out = <<>>

\* A call of ValidateInitialWord returns.
CallValidateInitialWord ==
    /\ val_in # <<>> /\ val_out = <<>>
    /\ val_in[1].fn = "ValidateInitialWord"
    /\ val_out' = <<[result |-> ValidateInitialWord(val_in[1].word, val_in[1].original),
                     reads |-> {}]>>
    /\ UNCHANGED <<val_in, labels, posVars, screenVars, widgetVars, loopVars, threadVars>>

\* A call of ValidatePlaySoundCard with a valid index returns.
CallValidatePlaySoundCard ==
    /\ val_in # <<>> /\ val_out = <<>>
    /\ val_in[1].fn = "ValidatePlaySoundCard"
    /\ val_out' = <<[result |-> ValidatePlaySoundCard(val_in[1].played, val_in[1].on,
                                                       val_in[1].at),
                     reads |-> SpanReads(val_in[1].played, val_in[1].on, val_in[1].at)]>>
    /\ UNCHANGED <<val_in, labels, posVars, screenVars, widgetVars, loopVars, threadVars>>

\* ---------------------------------------------------------------------------
\*  Specifications
\* ---------------------------------------------------------------------------
PosIdle == pos = MkPosition(0, 0, DefaultAnchor) /\ rel_call = <<>> /\ rel_result = <<>>
ScreenIdle == ScreenInit /\ renderer_size = <<0, 0>>
CursorIdle ==
    shaped = EmptyShaped /\ cursor = 0 /\ cursor_offs = -1 /\ edit_click = <<>>
EditIdle == text = <<>> /\ dirty = FALSE /\ hide_text = FALSE /\ thrown = FALSE
TextIdle == CursorIdle /\ EditIdle
WidgetIdle == TextIdle /\ GroupInit
ValIdle == val_in = <<>> /\ val_out = <<>>
ExtIdle == labels = <<"", "">> /\ ValIdle
SysIdle == LoopInit /\ ThreadInit /\ ExtIdle

PosSpecInit == PosInit /\ ScreenIdle /\ WidgetIdle /\ SysIdle

PosNext ==
    \/ \E a \in Anchors : AnchorTo(a)
    \/ \E d \in {-1, 1} : Hoffset(d)
    \/ \E d \in {-1, 1} : Voffset(d)
    \/ \E c \in RelativeCalls : Relative(c[1], c[2], c[3])

PosSpec == PosSpecInit /\ [][PosNext]_vars

TickSpecInit == PosIdle /\ ScreenIdle /\ WidgetIdle /\ SysIdle

TickNext ==
    \/ \E s \in BOOLEAN, b \in Boxes : Create(Widget(s, b, FALSE))
    \/ \E i \in 1..MaxChildren, v \in BOOLEAN : SetVisible(i, v)
    \/ \E i \in 1..MaxChildren, b \in Boxes : SetBoundingBox(i, b)
    \/ \E m \in MouseStates : Tick(m)

TickSpec == TickSpecInit /\ [][TickNext]_vars

\* The elements a screen is given: a plain widget, a button, a text edit, a
\* card and a group without cards.
ScreenElements == {Widget(FALSE, BoxAt(0, 0), FALSE), Button(0), TextEdit, Card, CardGroup(0)}

RefreshSpecInit == PosIdle /\ ScreenInit /\ renderer_size \in RendererSizes /\ WidgetIdle /\ SysIdle

\* The children of the screen whose refresh sets their box.
Sized == {i \in 1..Len(children) : children[i].kind # "Widget"}

RefreshNext ==
    \/ \E e \in ScreenElements :
          /\ e.kind # "Widget" => Cardinality(Sized) < MaxSized
          /\ Create(e)
    \/ \E i \in 1..MaxChildren, v \in BOOLEAN : SetVisible(i, v)
    \/ \E i \in 1..MaxChildren : RequestRefresh(i)
    \/ \E i \in 1..MaxChildren, t \in LabelTexts : ElementUpdateText(i, t)
    \/ \E i \in 1..MaxChildren, s \in Scales : ElementSetScale(i, s)
    \/ \E i \in 1..MaxChildren : ElementAdd(i)
    \/ \E s \in RendererSizes : Resize(s)
    \/ Refresh

RefreshSpec == RefreshSpecInit /\ [][RefreshNext]_vars

CursorSpecInit == PosIdle /\ ScreenIdle /\ CursorInit /\ GroupInit /\ SysIdle

CursorNext ==
    \/ \E show \in BOOLEAN : Draw(show)
    \/ \E mx \in MouseXs : EventClick(mx)

CursorSpec == CursorSpecInit /\ [][CursorNext]_vars

EditSpecInit == PosIdle /\ ScreenIdle /\ EditInit /\ GroupInit /\ SysIdle

EditNext ==
    \/ \E t \in TextInputs, k \in KeyEventLists :
          \E c \in Clipboards(k), ub \in WordStarts(k) : EventInput(t, k, c, ub)
    \/ \E mx \in MouseXs : EventClick(mx)
    \/ \E t \in NewTexts : Value(t)
    \/ \E h \in BOOLEAN : SetHideText(h)
    \/ \E show \in BOOLEAN : Draw(show)
    \/ TextBoxRefresh

EditSpec == EditSpecInit /\ [][EditNext]_vars

GroupSpecInit == PosIdle /\ ScreenIdle /\ TextIdle /\ GroupInit /\ SysIdle

GroupNext ==
    \/ \E c \in CardIds : Add(c)
    \/ \E s \in Scales : SetScale(s)
    \/ \E w \in MaxWidths : SetMaxWidth(w)
    \/ \E a \in BOOLEAN : SetAutoscale(a)
    \/ \E v \in BOOLEAN : SetGroupVisible(v)
    \/ \E size \in ParentSizes : SetParentBox(size)
    \/ GroupRefresh
    \/ CardGroupRefresh

GroupSpec == GroupSpecInit /\ [][GroupNext]_vars

\* One call of a validation function on arguments drawn from the bounded sets.
ValidationSpecInit ==
    /\ PosIdle /\ ScreenIdle /\ WidgetIdle /\ LoopInit /\ ThreadInit
    /\ labels = <<"", "">>
    /\ ValInit

ValidationNext ==
    \/ CallValidateInitialWord
    \/ CallValidatePlaySoundCard

ValidationSpec == ValidationSpecInit /\ [][ValidationNext]_vars

\* A card group on one screen and a text box and a label on another: the
\* writers of needs_refresh and the two refreshes that consume it.
LatchSpecInit ==
    /\ PosIdle /\ WidgetIdle /\ LoopInit /\ ThreadInit /\ ValIdle
    /\ labels = <<"", "">>
    /\ children \in LabelScreens
    /\ selected_element = 0 /\ tick_input = <<>> /\ tick_log = <<>>
    /\ was_selected = FALSE /\ sdl_text_input = NoCall
    /\ screen_box = <<0, 0>> /\ prev_size = <<0, 0>> /\ refresh_log = <<>>
    /\ renderer_size = <<0, 0>>

LatchNext ==
    \/ Len(cards) < MaxRow /\ Add("PowerCard")
    \/ \E s \in Scales : SetScale(s)
    \/ \E w \in {0, 300} : SetMaxWidth(w)
    \/ \E a \in BOOLEAN : SetAutoscale(a)
    \/ GroupRefresh
    \/ CardGroupRefresh
    \/ \E t \in LabelTexts : UpdateText(t)
    \/ \E t \in LabelTexts : update_text(t)
    \/ \E size \in {<<0, 0>>, <<MaxWindow, MaxWindow>>} : Resize(size)
    \/ Refresh

LatchSpec == LatchSpecInit /\ [][LatchNext]_vars

\* game_loop run on a screen of two widgets; LoopFairSpec assumes that the
\* callback, the poll and the bounded wait return.
LoopSpecInit ==
    /\ PosIdle /\ WidgetIdle /\ LoopInit /\ ThreadInit /\ ExtIdle
    /\ children = LoopScreen
    /\ selected_element = 0 /\ tick_input = <<>> /\ tick_log = <<>>
    /\ was_selected = FALSE /\ sdl_text_input = NoCall
    /\ screen_box = <<0, 0>> /\ prev_size = <<0, 0>> /\ refresh_log = <<>>
    /\ renderer_size = <<0, 0>>

LoopNext ==
    \/ LoopTest
    \/ \E events \in EventQueues, p \in LoopPoints : LoopPoll(events, p)
    \/ LoopTick
    \/ \E d \in Durations : LoopEnd(d)

LoopSpec == LoopSpecInit /\ [][LoopNext]_vars

LoopFairSpec == LoopSpec /\ WF_vars(LoopNext)

\* game_loop fed with events that carry keys and texts.
InputEvents == {Quit, ButtonDown("SDL_BUTTON_LEFT"), KeyDown("SDLK_A"), KeyDown("SDLK_B"),
                TextEvent(<<"a">>), TextEvent(<<"b", "c">>)}
InputQueues == UNION {[1..n -> InputEvents] : n \in 0..MaxEvents}

InputNext ==
    \/ LoopTest
    \/ \E events \in InputQueues, p \in LoopPoints : LoopPoll(events, p)
    \/ LoopTick
    \/ \E d \in {0, ClientTickDuration} : LoopEnd(d)

InputSpec == LoopSpecInit /\ [][InputNext]_vars

\* A Thread, its owner and its workers; ThreadFairSpec assumes that both the
\* owner inside start() and the worker are scheduled and that the callable
\* returns.
ThreadSpecInit == PosIdle /\ ScreenIdle /\ WidgetIdle /\ LoopInit /\ ThreadInit /\ ExtIdle

ThreadNext ==
    \/ StartAssert
    \/ StartSpawn
    \/ StartStore
    \/ WorkerInvoke
    \/ WorkerFinish
    \/ StopAndRelease
    \/ Running
    \/ ThreadValue

ThreadSpec == ThreadSpecInit /\ [][ThreadNext]_vars

ThreadFairSpec ==
    ThreadSpec /\ WF_vars(StartStore) /\ WF_vars(WorkerInvoke) /\ WF_vars(WorkerFinish)

\* ---------------------------------------------------------------------------
\*  Position::relative: properties
\* ---------------------------------------------------------------------------
Called == rel_call # <<>>
call == rel_call[1]
result == rel_result[1]

\* Per axis k (1 = x, 2 = y): base coordinate, adjustment, container origin,
\* container extent and object extent of the resolved call.
Base(k) == pos.base[k]
Adj(k) == IF k = 1 THEN pos.xadjust ELSE pos.yadjust
Org(k) == call.parent[k]
Ext(k) == call.parent_size[k]
Obj(k) == call.object_size[k]


\* n / 2 rounded toward zero, and rounded down.
TowardZero2(n) == CHOOSE q \in (-Abs(n))..Abs(n) : Abs(2 * q) <= Abs(n) /\ Abs(n - 2 * q) <= 1
Floor2(n) == CHOOSE q \in (-Abs(n) - 1)..Abs(n) : 2 * q <= n /\ n - 2 * q <= 1

\* C1 as stated: with anchor SouthWest every axis resolves to p + a + r, where
\* r = floor((S - o) / 2) for a Centered base, S + b - o for a negative base
\* and b otherwise.
C1_FloorCentering ==
    (Called /\ pos.anchor = "SouthWest") =>
        \A k \in {1, 2} :
            result[k] = Org(k) + Adj(k)
                + (IF Base(k) = Centered THEN Floor2(Ext(k) - Obj(k))
                   ELSE IF Base(k) < 0 THEN Ext(k) + Base(k) - Obj(k)
                   ELSE Base(k))

\* The coordinate of axis k for anchor SouthWest: p + a + r with the centering
\* quotient rounded toward zero.
SouthWestCoord(k) ==
    Org(k) + Adj(k)
        + (IF Base(k) = Centered THEN TowardZero2(Ext(k) - Obj(k))
           ELSE IF Base(k) < 0 THEN Ext(k) + Base(k) - Obj(k)
           ELSE Base(k))

\* C1 (amended): with anchor SouthWest every axis resolves to p + a + r, where
\* r = (S - o) / 2 rounded toward zero for a Centered base, S + b - o for a
\* negative base and b otherwise, also for objects larger than the container.
C1_TruncCentering ==
    (Called /\ pos.anchor = "SouthWest") =>
        \A k \in {1, 2} : result[k] = SouthWestCoord(k)

\* An object one pixel wider than its container is centered on x, and placed
\* from the far edge on y.
C1_Witness ==
    /\ Called /\ pos.anchor = "SouthWest"
    /\ Base(1) = Centered /\ Obj(1) = Ext(1) + 1 /\ Adj(1) # 0
    /\ Base(2) < 0 /\ Base(2) # Centered /\ Obj(2) > 0

ExampleCall == [parent |-> <<0, 0>>, parent_size |-> <<200, 100>>, object_size |-> <<50, 20>>]

\* C2 as stated: Position{0,0,Anchor::Center} in a 200x100 container at the
\* origin, for a 50x20 object, resolves to (75, 40).
C2_SpecExample ==
    (Called /\ pos = MkPosition(0, 0, "Center") /\ call = ExampleCall)
        => result = <<75, 40>>

\* C2 (amended): Position{0,0,Anchor::Center} in a 200x100 container at the
\* origin, for a 50x20 object, resolves to (-25, -10): the literal base (0, 0)
\* less half of the object's extents.
C2_CodeExample ==
    (Called /\ pos = MkPosition(0, 0, "Center") /\ call = ExampleCall)
        => result = <<-25, -10>>

C2_Witness == Called /\ pos = MkPosition(0, 0, "Center") /\ call = ExampleCall

\* C3: the anchor does not move a Centered axis. Position::Center(a) resolves,
\* for each of the nine anchors, to the centered point; and any axis whose
\* base is Centered resolves to the coordinate anchor SouthWest gives it.
C3_CenteredAxisIgnoresAnchor ==
    Called =>
        /\ (pos = Center(pos.anchor)) =>
                result = <<Org(1) + TowardZero2(Ext(1) - Obj(1)),
                           Org(2) + TowardZero2(Ext(2) - Obj(2))>>
        /\ \A k \in {1, 2} : (Base(k) = Centered) => result[k] = SouthWestCoord(k)

\* Position::Center(Anchor::NorthEast) resolved for an object with extents.
C3_Witness ==
    /\ Called /\ pos = Center("NorthEast")
    /\ Obj(1) > 0 /\ Obj(2) > 0

\* C4 as stated: xadjust / yadjust are skipped on a Centered axis, which
\* resolves to the same coordinate for every adjustment.
C4_AdjustSkippedWhenCentered ==
    Called =>
        \A k \in {1, 2} :
            (Base(k) = Centered) => result[k] = Org(k) + TowardZero2(Ext(k) - Obj(k))

\* C4 (amended): xadjust / yadjust are applied on every axis, Centered ones
\* included: a Centered axis resolves to the centered coordinate plus the
\* axis's adjustment.
C4_AdjustAppliedWhenCentered ==
    Called =>
        \A k \in {1, 2} :
            (Base(k) = Centered) =>
                result[k] - (Org(k) + TowardZero2(Ext(k) - Obj(k))) = Adj(k)

\* Position::Center().voffset(d), as TextBox::TextPos builds it, resolved.
C4_Witness ==
    /\ Called /\ Base(1) = Centered /\ Base(2) = Centered
    /\ pos.xadjust = 0 /\ pos.yadjust # 0

\* The anchor's share of the object's extent on axis k.
C5_Share(k) ==
    IF k = 1
    THEN IF pos.anchor \in {"NorthEast", "East", "SouthEast"} THEN Obj(1)
         ELSE IF pos.anchor \in {"North", "South", "Center"} THEN Obj(1) \div 2
         ELSE 0
    ELSE IF pos.anchor \in {"NorthWest", "North", "NorthEast"} THEN Obj(2)
         ELSE IF pos.anchor \in {"West", "East", "Center"} THEN Obj(2) \div 2
         ELSE 0

\* C5: on an axis that is not Centered the anchor's share of the object's
\* extent is subtracted: the full extent, half of it, or nothing.
C5_AnchorShare ==
    Called =>
        \A k \in {1, 2} :
            (Base(k) # Centered) =>
                result[k] = Org(k) + Adj(k) - C5_Share(k)
                    + (IF Base(k) < 0 THEN Ext(k) + Base(k) - Obj(k) ELSE Base(k))

\* Anchor North: half the width and the full height of a 2x2 object.
C5_Witness ==
    /\ Called /\ pos.anchor = "North"
    /\ Base(1) # Centered /\ Base(2) # Centered
    /\ call.object_size = <<2, 2>>

\* C6 as stated: base -1, anchor SouthWest and no adjustment put the object's
\* far edge on the container's far edge.
C6_FarEdgeFlush ==
    (Called /\ pos.anchor = "SouthWest") =>
        \A k \in {1, 2} :
            (Base(k) = -1 /\ Adj(k) = 0) => result[k] + Obj(k) = Org(k) + Ext(k)

\* C6 (amended): base -1, anchor SouthWest and no adjustment put the object's
\* far edge one pixel inside the container's far edge.
C6_FarEdgeOneInside ==
    (Called /\ pos.anchor = "SouthWest") =>
        \A k \in {1, 2} :
            (Base(k) = -1 /\ Adj(k) = 0) => result[k] + Obj(k) = Org(k) + Ext(k) - 1

C6_Witness ==
    /\ Called /\ pos.anchor = "SouthWest"
    /\ Base(1) = -1 /\ Adj(1) = 0 /\ Obj(1) > 0 /\ Ext(1) > 0 /\ Org(1) > 0

\* ---------------------------------------------------------------------------
\*  Screen::tick: properties
\* ---------------------------------------------------------------------------
Indices == 1..Len(children)

\* The last child, in insertion order, that is visible, selectable and whose
\* bounding box covers the mouse position; 0 if there is none.
LastMatch(mouse) ==
    LET hits == {i \in Indices : /\ children[i].visible
                                 /\ children[i].selectable
                                 /\ mouse.pos \in children[i].bounding_box}
    IN  IF hits = {} THEN 0 ELSE CHOOSE i \in hits : \A j \in hits : j <= i

\* C7: a tick with a left click leaves selected the last visible, selectable
\* child under the mouse, or none; a tick without one leaves the selection
\* as it was.
C7_ClickSelectsLastMatch ==
    [][\A m \in MouseStates :
          Tick(m) => selected_element' = IF m.left THEN LastMatch(m)
                                         ELSE selected_element]_vars

\* A click over two selectable children selected the later one.
C7_Witness ==
    /\ tick_input # <<>> /\ tick_input[1].left
    /\ Len(children) >= 2 /\ selected_element = 2
    /\ children[1].visible /\ children[1].selectable /\ children[1].hovered
    /\ children[2].hovered

\* C8: at most one child has its selected flag set, and a child's flag is set
\* exactly when the child is the screen's selected_element.
C8_SingleSelected ==
    /\ Cardinality({i \in Indices : children[i].selected}) <= 1
    /\ \A i \in Indices : children[i].selected <=> (selected_element = i)

\* Positions in the last tick's log of the event_input callbacks.
InputCalls == {k \in 1..Len(tick_log) : tick_log[k][1] = "event_input"}

\* C9: when a tick ends with a selected widget, that widget's selected flag
\* is set and the tick's last callback, and its only event_input, went to it;
\* when it ends with none, the tick delivered no event_input.
C9_InputToSelected ==
    IF selected_element # 0
    THEN /\ children[selected_element].selected
         /\ InputCalls = {Len(tick_log)}
         /\ tick_log[Len(tick_log)] = <<"event_input", selected_element>>
    ELSE InputCalls = {}

\* A tick without a click, with a widget selected by an earlier one.
C9_Witness ==
    /\ tick_input # <<>> /\ ~tick_input[1].left
    /\ selected_element # 0
    /\ tick_log = <<<<"event_input", selected_element>>>>

\* C25: every tick leaves the input system's was_selected equal to whether
\* the screen has a selected widget, calls SDL_StartTextInput exactly when
\* that value turns true and SDL_StopTextInput exactly when it turns false,
\* and makes no call when it stays; so the calls alternate, Start first.
C25_TextInputCapture ==
    [][\A m \in MouseStates :
          Tick(m) =>
             /\ was_selected' = (selected_element' # 0)
             /\ sdl_text_input' = "SDL_StartTextInput" <=>
                    (~was_selected /\ selected_element' # 0)
             /\ sdl_text_input' = "SDL_StopTextInput" <=>
                    (was_selected /\ selected_element' = 0)
             /\ sdl_text_input' = NoCall <=>
                    (was_selected = (selected_element' # 0))]_vars

\* A click that hit nothing deselected the widget an earlier tick had
\* selected, and the tick stopped the text input.
C25_Witness ==
    /\ tick_input # <<>> /\ tick_input[1].left
    /\ children # <<>>
    /\ selected_element = 0 /\ ~was_selected
    /\ sdl_text_input = "SDL_StopTextInput"

\* C30: a tick delivers no event_click and no event_input to a child that is
\* not visible and does not turn on its hovered or selected flag, also when
\* the child is the screen's selected widget.
C30_InvisibleUntouched ==
    [][\A m \in MouseStates :
          Tick(m) =>
             \A i \in Indices :
                 ~children[i].visible =>
                    /\ \A k \in 1..Len(tick_log') : tick_log'[k][2] # i
                    /\ children'[i].hovered => children[i].hovered
                    /\ children'[i].selected => children[i].selected]_vars

\* ---------------------------------------------------------------------------
\*  Screen::refresh: properties
\* ---------------------------------------------------------------------------
Flagged == {i \in Indices : children[i].needs_refresh}

\* The sequence seq lists exactly the members of set, in ascending order.
ListsAscending(seq, set) ==
    /\ Len(seq) = Cardinality(set)
    /\ \A k \in 1..Len(seq) : seq[k] \in set
    /\ \A k \in 1..(Len(seq) - 1) : seq[k] < seq[k + 1]

\* C10: a refresh at the cached size refreshes exactly the flagged children,
\* visible or not, clears their flags, and leaves every other child and
\* prev_size as they were.
C10_FastPath ==
    [][(Refresh /\ renderer_size = prev_size) =>
          /\ ListsAscending(refresh_log', Flagged)
          /\ Len(children') = Len(children)
          /\ \A i \in Indices :
                IF i \in Flagged THEN ~children'[i].needs_refresh
                ELSE children'[i] = children[i]
          /\ prev_size' = prev_size]_vars

\* A refresh that reached the flagged, invisible first child, a card group
\* that took the size of the row of the card added to it, and passed over the
\* visible, unflagged second one.
C10_Witness ==
    /\ Len(children) = 2 /\ refresh_log = <<1>>
    /\ prev_size = renderer_size
    /\ ~children[1].visible /\ children[2].visible
    /\ \A i \in Indices : ~children[i].needs_refresh
    /\ children[1].kind = "CardGroup" /\ children[1].ncards = 1
    /\ children[1].bounding_box = Points
    /\ children[2].kind = "Widget"

\* C11: a refresh at a new size refreshes exactly the children that are
\* visible or flagged, clears their flags and caches the new size; and no
\* refresh, at a new size or the cached one, leaves a child flagged.
C11_Resized ==
    [][Refresh =>
          /\ (renderer_size # prev_size) =>
                /\ ListsAscending(refresh_log',
                       {i \in Indices : children[i].visible \/ children[i].needs_refresh})
                /\ Len(children') = Len(children)
                /\ \A i \in Indices :
                      IF children[i].visible \/ children[i].needs_refresh
                      THEN ~children'[i].needs_refresh
                      ELSE children'[i] = children[i]
                /\ prev_size' = renderer_size
          /\ \A i \in 1..Len(children') : ~children'[i].needs_refresh]_vars

\* A refresh after a resize that reached both children, the first of them
\* invisible, the second a visible card set to the largest scale that took
\* its size from the refresh.
C11_Witness ==
    /\ Len(children) = 2 /\ refresh_log = <<1, 2>>
    /\ prev_size = renderer_size /\ prev_size # <<0, 0>>
    /\ ~children[1].visible /\ children[2].visible
    /\ \A i \in Indices : ~children[i].needs_refresh
    /\ children[2].kind = "Card" /\ children[2].scale = Large
    /\ children[2].bounding_box = Points

\* ---------------------------------------------------------------------------
\*  TextEdit cursor placement: properties
\* ---------------------------------------------------------------------------
\* The draw that placed the cursor was the last thing to happen.
CursorDrawn == cursor_offs # -1 /\ edit_click = <<>>
ClusterAt(c) == {j \in 1..Len(shaped.clusters) : shaped.clusters[j].index = c}

\* C13: a shown cursor at 0 is drawn at offset 0, one at the end of the text
\* at the label's width, and any other that is the index of a cluster at that
\* cluster's xoffs.
C13_BoundaryOffsets ==
    CursorDrawn =>
        /\ cursor = 0 => cursor_offs = 0
        /\ cursor = shaped.size => cursor_offs = shaped.width
        /\ \A j \in ClusterAt(cursor) :
              cursor \notin {0, shaped.size} => cursor_offs = shaped.clusters[j].xoffs

\* A cursor at the end of a text whose last cluster starts left of the
\* label's right edge.
C13_Witness ==
    /\ CursorDrawn /\ cursor = shaped.size /\ cursor_offs = shaped.width
    /\ shaped.clusters[Len(shaped.clusters)].xoffs < shaped.width

\* The cluster before the cursor and the one after it, the latter being the
\* virtual terminal cluster (size, width) when no cluster follows.
PrevCluster ==
    shaped.clusters[CHOOSE j \in 1..Len(shaped.clusters) :
        /\ shaped.clusters[j].index < cursor
        /\ \A i \in 1..Len(shaped.clusters) :
              shaped.clusters[i].index < cursor => i <= j]
NextCluster ==
    IF \E j \in 1..Len(shaped.clusters) : shaped.clusters[j].index > cursor
    THEN shaped.clusters[CHOOSE j \in 1..Len(shaped.clusters) :
            /\ shaped.clusters[j].index > cursor
            /\ \A i \in 1..Len(shaped.clusters) :
                  shaped.clusters[i].index > cursor => j <= i]
    ELSE [index |-> shaped.size, xoffs |-> shaped.width]
Between == 0 < cursor /\ cursor < shaped.size /\ ClusterAt(cursor) = {}

\* C14: a shown cursor strictly inside the text that is the index of no
\* cluster is drawn at x1 + (x2 - x1) * (c - i1) / (i2 - i1), for the cluster
\* (i1, x1) before it and the cluster (i2, x2) after it, the latter being
\* (size, width) when no cluster follows.
C14_LinearInterpolation ==
    (CursorDrawn /\ Between) =>
        cursor_offs = PrevCluster.xoffs
            + ((NextCluster.xoffs - PrevCluster.xoffs) * (cursor - PrevCluster.index))
                  \div (NextCluster.index - PrevCluster.index)

\* The click that placed the cursor was the last thing to happen.
Clicked == edit_click # <<>>
ClickX == edit_click[1].mx

\* One cluster per character, each right of the one before, and the end of
\* the text right of the last character.
OnePerChar ==
    /\ shaped.size >= 1
    /\ Len(shaped.clusters) >= shaped.size
    /\ \A j \in 1..Len(shaped.clusters) : shaped.clusters[j].index = j - 1
    /\ \A j \in 1..(Len(shaped.clusters) - 1) :
          shaped.clusters[j].xoffs < shaped.clusters[j + 1].xoffs
    /\ Len(shaped.clusters) = shaped.size =>
          shaped.clusters[Len(shaped.clusters)].xoffs < shaped.width

\* C15: with one cluster per character at increasing offsets, a click at the
\* pixel the cursor mapping gives index k leaves the cursor at k, for every k
\* from 0 to the text's length.
C15_ClickRoundTrip ==
    (Clicked /\ OnePerChar) =>
        \A k \in 0..shaped.size :
            ClickX = TextPos(shaped) + CursorOffs(shaped, k) => cursor = k

\* C16: a click left of the label puts the cursor at 0 and a click right of
\* it puts the cursor at the text's length, whatever the clusters (at least
\* one) and the cursor before.
C16_OutsideClicks ==
    (Clicked /\ shaped.clusters # <<>>) =>
        /\ ClickX < TextPos(shaped) => cursor = 0
        /\ ClickX > TextPos(shaped) + shaped.width => cursor = shaped.size

\* A click right of a label of several clusters that starts inside its box.
C16_Witness ==
    /\ Clicked /\ Len(shaped.clusters) >= 2 /\ TextPos(shaped) > 0
    /\ ClickX > TextPos(shaped) + shaped.width
    /\ cursor = shaped.size

\* ---------------------------------------------------------------------------
\*  TextEdit text buffer: properties
\* ---------------------------------------------------------------------------
\* C12: the cursor of a TextEdit lies between 0 and the length of its text
\* after any sequence of event_input, event_click and value calls.
C12_CursorInText == 0 <= cursor /\ cursor <= Len(text)

\* ---------------------------------------------------------------------------
\*  CardGroup: properties
\* ---------------------------------------------------------------------------
\* The last thing to happen was a refresh that laid the cards out.
LaidOut == layout # <<>>
Fitting(n, width) == {s \in Scales : RowWidth(n, s) < width}

\* C17 as stated: with autoscale the scale chosen is the largest whose row
\* is narrower than the available width, the smallest when none is, whatever
\* the scale set on the group.
C17_LargestFitting ==
    (LaidOut /\ group.autoscale) =>
        layout[1].s = Max({OtherPlayer} \cup Fitting(Len(cards), layout[1].width))

\* C17 as the code has it: with autoscale the scale chosen is the largest one
\* above the scale set on the group whose row is narrower than the available
\* width, and the scale set on the group when there is none.
C17_LargestFittingAboveSet ==
    (LaidOut /\ group.autoscale) =>
        layout[1].s = Max({group.scale} \cup
                          {s \in Fitting(Len(cards), layout[1].width) : s > group.scale})

\* A full row scaled up one step by a width one pixel above what it takes.
C17_Witness ==
    /\ LaidOut /\ group.autoscale /\ Len(cards) = MaxCards
    /\ group.scale = OtherPlayer /\ layout[1].s = Field
    /\ layout[1].width = RowWidth(MaxCards, Field) + 1

\* C18: with max_width unset the width the autoscale decision works with is
\* the width of the parent's bounding box.
C18_ParentWidth ==
    (LaidOut /\ group.autoscale /\ group.max_width = 0) =>
        layout[1].width = parent_box.size[1]

\* C19: after a refresh at scale s card i (from 0) has scale s, sits at
\* x = i * (CardSize[s].wd + CardGaps[s]) and is centred vertically, and the
\* group's box is count * CardSize[s].wd + (count - 1) * CardGaps[s] wide and
\* CardSize[s].ht high.
C19_RowLayout ==
    LaidOut =>
        LET s == layout[1].s
            n == Len(cards)
        IN  /\ \A i \in 1..n :
                  /\ cards[i].scale = s
                  /\ cards[i].pos.base = <<(i - 1) * (CardSize(s)[1] + CardGaps(s)), Centered>>
            /\ group.box.size = <<n * CardSize(s)[1] + (n - 1) * CardGaps(s), CardSize(s)[2]>>

\* Four cards at the smallest scale in a box 255 wide.
C19_Witness ==
    /\ LaidOut /\ Len(cards) = 4 /\ layout[1].s = OtherPlayer
    /\ group.box.size = <<255, 90>>
    /\ cards[4].pos.base[1] = 195

\* C20: without autoscale every card gets the scale set on the group,
\* whatever the number of cards, max_width and the width available.
C20_ExplicitScale ==
    (LaidOut /\ ~group.autoscale) =>
        /\ layout[1].s = group.scale
        /\ \A i \in 1..Len(cards) : cards[i].scale = group.scale

\* Two cards kept at the smallest scale under a max_width that has room for
\* the largest.
C20_Witness ==
    /\ LaidOut /\ ~group.autoscale /\ Len(cards) = 2
    /\ group.scale = OtherPlayer /\ group.max_width > RowWidth(2, Large)
    /\ \A i \in 1..2 : cards[i].scale = OtherPlayer

\* ---------------------------------------------------------------------------
\*  TextEdit cursor mapping and click loop: totality
\* ---------------------------------------------------------------------------
\* A cluster list HarfBuzz reports for a text: not empty, ascending by index,
\* starting at index 0.
WellFormed(sh) ==
    /\ sh.clusters # <<>>
    /\ sh.clusters[1].index = 0
    /\ \A j \in 1..(Len(sh.clusters) - 1) :
          sh.clusters[j].index < sh.clusters[j + 1].index

\* C26: for every cursor strictly between 0 and the text's length and every
\* well-formed cluster list, the cluster before the lower bound exists (the
\* lookup never steps before the first cluster) and, unless the cursor is a
\* cluster's index, the index range the interpolation divides by is
\* strictly positive.
C26_TotalMapping ==
    WellFormed(shaped) =>
        \A c \in 1..(shaped.size - 1) :
            LET b == CursorBracket(shaped, c)
            IN  /\ b.prev >= 1
                /\ (b.virtual \/ b.i2 # c) =>
                      b.i2 - shaped.clusters[b.prev].index > 0

\* The cursor drawn inside the last cluster, between its index and the end
\* of the text, in a label of several clusters.
C26_Witness ==
    /\ CursorDrawn /\ Between /\ WellFormed(shaped)
    /\ Len(shaped.clusters) >= 2
    /\ CursorBracket(shaped, cursor).virtual
    /\ cursor_offs = CursorInside(shaped, cursor)

\* C27: event_click ends after examining at most one candidate per character
\* of the text, each candidate one more than the one before, and leaves the
\* cursor between 0 and the text's length, wherever the mouse is and whatever
\* the clusters, a single cluster and no cluster included.
C27_ClickTotal ==
    Clicked =>
        /\ 0 <= cursor /\ cursor <= Len(text)
        /\ Len(edit_click[1].seen) <= Len(text)
        /\ \A j \in 1..Len(edit_click[1].seen) : edit_click[1].seen[j].k = j - 1

\* A click inside a label of several clusters whose loop ran to the end of
\* the text, in a box that a refresh has widened to hold the label.
C27_Witness ==
    /\ Clicked /\ Len(shaped.clusters) >= 2 /\ Len(text) >= 2
    /\ Len(edit_click[1].seen) = Len(text)
    /\ cursor = Len(text)
    /\ shaped.width > MinWd /\ shaped.box[2] = EditBoxWidth(shaped.width)

\* A click on a label of a single cluster, and one on the empty label.
C27_WitnessSingle ==
    /\ Clicked /\ Len(shaped.clusters) = 1 /\ edit_click[1].seen = <<>>
    /\ ClickX >= TextPos(shaped) /\ ClickX <= TextPos(shaped) + shaped.width
    /\ cursor = 0

\* C29: every candidate event_click examines that is not the index of the
\* candidate cluster gets the offset the cursor mapping of draw gives that
\* index on the same clusters, computed over a non-zero index range.
C29_SameInterpolation ==
    (Clicked /\ WellFormed(shaped)) =>
        \A j \in 1..Len(edit_click[1].seen) :
            LET e == edit_click[1].seen[j]
            IN  ~e.exact =>
                   /\ e.range # 0
                   /\ e.xoffs = CursorOffs(shaped, e.k)

\* ---------------------------------------------------------------------------
\*  InputSystem::game_loop: properties
\* ---------------------------------------------------------------------------
\* Positions in the events of the last poll of the button-down events for
\* button b.
ButtonDowns(b) == {i \in 1..Len(polled) : polled[i] = ButtonDown(b)}

\* event_click callbacks the last tick dispatched to child w.
ClickCalls(w) == {k \in 1..Len(tick_log) : tick_log[k] = <<"event_click", w>>}

\* C21: after a poll a button's flag is true exactly when the poll took at
\* least one button-down event for that button, however many it took; and
\* the tick that follows dispatches event_click once to every widget under
\* the mouse when the left flag is true, and to no widget otherwise.
C21_ClickDebounce ==
    /\ input.mouse.left = (ButtonDowns("SDL_BUTTON_LEFT") # {})
    /\ input.mouse.right = (ButtonDowns("SDL_BUTTON_RIGHT") # {})
    /\ input.mouse.middle = (ButtonDowns("SDL_BUTTON_MIDDLE") # {})
    /\ loop_pc # "tick" =>
          \A w \in Indices :
              Cardinality(ClickCalls(w)) =
                  IF input.mouse.left /\ children[w].hovered THEN 1 ELSE 0

\* Two left button-down events in one poll, and the tick after it clicked
\* each of the two widgets under the mouse once.
C21_Witness ==
    /\ loop_pc = "end"
    /\ Cardinality(ButtonDowns("SDL_BUTTON_LEFT")) >= 2
    /\ input.mouse.left
    /\ \A w \in Indices : children[w].hovered /\ Cardinality(ClickCalls(w)) = 1

\* The iteration of the game loop that has just ended.
Iteration == loop_log[1]

\* C22 as stated: under the budget the loop waits for the remainder and
\* reports nothing, over the budget it does not wait and reports the
\* duration, and it reports an overrun only for a duration over the budget.
C22_OverrunOnlyAbove ==
    loop_log # <<>> =>
        /\ Iteration.d < ClientTickDuration =>
              /\ Iteration.wait = <<ClientTickDuration - Iteration.d>>
              /\ Iteration.overrun = <<>>
        /\ Iteration.d > ClientTickDuration =>
              /\ Iteration.wait = <<>>
              /\ Iteration.overrun = <<Iteration.d>>
        /\ Iteration.overrun # <<>> => Iteration.d > ClientTickDuration

\* C22, amended: an iteration that took d whole milliseconds waits for an
\* event with a timeout of exactly 16 - d and reports nothing when d < 16 (5
\* gives 11), and does not wait and reports d as an overrun when d >= 16 (16
\* and 25 included); an overrun is reported exactly when d >= 16.
C22_BudgetWait ==
    loop_log # <<>> =>
        /\ Iteration.d < ClientTickDuration =>
              /\ Iteration.wait = <<ClientTickDuration - Iteration.d>>
              /\ Iteration.overrun = <<>>
        /\ Iteration.d >= ClientTickDuration =>
              /\ Iteration.wait = <<>>
              /\ Iteration.overrun = <<Iteration.d>>
        /\ Iteration.d = 5 => Iteration.wait = <<11>>
        /\ Iteration.d = 25 => Iteration.overrun = <<25>>

\* An iteration that took exactly the budget: no wait, an overrun of 16 ms.
C22_Witness ==
    /\ loop_log # <<>> /\ loop_pc = "test"
    /\ Iteration.d = ClientTickDuration
    /\ Iteration.wait = <<>> /\ Iteration.overrun = <<ClientTickDuration>>

\* The loop calls process_events: it goes from before the poll to before
\* the callback.
Polls == loop_pc = "poll" /\ loop_pc' = "tick"

\* C23: the quit flag, once set, stays set; process_events is not called
\* again once it is set; and from the poll that sets it the loop goes on to
\* return.
C23_QuitTerminates ==
    /\ [][input.quit => input'.quit]_vars
    /\ [][input.quit => ~Polls]_vars
    /\ input.quit ~> (loop_pc = "returned")

\* The loop has returned after a poll that took a quit event among others.
C23_Witness ==
    /\ loop_pc = "returned" /\ input.quit
    /\ \E i \in 1..Len(polled) : polled[i] = Quit
    /\ Len(polled) >= 2 /\ tick_input # <<>>

\* ---------------------------------------------------------------------------
\*  pr::Thread: properties
\* ---------------------------------------------------------------------------
\* The owner's last call and what it returned.
LastCall == thread_call[1]

\* C24: whenever the owner, outside start(), finds run_flag false after a
\* start, the worker has assigned its result and cleared the flag, and the
\* result is the callable's value until value() moves it out; value()
\* asserts exactly when the flag is set and otherwise returns the result as
\* it is; nothing but value() takes the result.
C24_ResultAfterCompletion ==
    /\ []((~running /\ start_pc # "spawned" /\ starts > 0) =>
             /\ worker = "done"
             /\ thread_result \in {ResultOf(starts), MovedFrom})
    /\ [][ThreadValue =>
             IF running THEN LastCall'.asserted
             ELSE ~LastCall'.asserted /\ LastCall'.ret = <<thread_result>>]_vars
    /\ [][(thread_result # MovedFrom /\ thread_result' = MovedFrom) =>
             ThreadValue]_vars

\* The owner took the second worker's result with value(), after the first
\* worker was told to stop and released.
C24_Witness ==
    /\ thread_call # <<>> /\ LastCall.call = "value" /\ ~LastCall.asserted
    /\ starts = 2 /\ worker = "done" /\ ~running
    /\ LastCall.ret = <<ResultOf(2)>>
    /\ thread_result = MovedFrom

\* C28: once start() has returned and the callable has returned, running()
\* eventually returns false, and value(), called when the worker is done and
\* the result not yet taken, returns the callable's result.
C28_StartedThreadCompletes ==
    /\ (start_pc = "idle" /\ starts > 0 /\ worker \in {"written", "done"})
          ~> ~running
    /\ [][(ThreadValue /\ worker = "done" /\ thread_result # MovedFrom) =>
             LastCall'.ret = <<ResultOf(starts)>>]_vars

\* ---------------------------------------------------------------------------
\*  Screen::tick: click dispatch and hover
\* ---------------------------------------------------------------------------
\* event_click callbacks in a tick's log that went to child w.
ClicksIn(log, w) == {k \in 1..Len(log) : log[k] = <<"event_click", w>>}

\* C31: a tick with a left click dispatches event_click exactly once to
\* every visible child whose bounding box contains the mouse position,
\* selectable or not, and to no other child; a tick without a left click
\* dispatches none.
C31_ClickToEveryHovered ==
    [][\A m \in MouseStates :
          Tick(m) =>
             \A w \in Indices :
                 Cardinality(ClicksIn(tick_log', w)) =
                     IF /\ m.left /\ children[w].visible
                        /\ m.pos \in children[w].bounding_box
                     THEN 1 ELSE 0]_vars

\* A click over a visible child that is not selectable reached it.
C31_Witness ==
    /\ tick_input # <<>> /\ tick_input[1].left
    /\ \E w \in Indices :
          /\ children[w].visible /\ ~children[w].selectable
          /\ children[w].hovered
          /\ Cardinality(ClicksIn(tick_log, w)) = 1

\* C33: every tick leaves the hovered flag of each visible child equal to
\* whether the child's bounding box contains the mouse position of that tick,
\* whatever the flag was before.
C33_HoveredIsHitTest ==
    [][\A m \in MouseStates :
          Tick(m) =>
             \A w \in Indices :
                 children[w].visible =>
                    children'[w].hovered = (m.pos \in children[w].bounding_box)]_vars

\* A visible child that an earlier click selected, hence hovered then, is no
\* longer hovered after a tick without a click: the mouse has left it.
C33_Witness ==
    /\ tick_input # <<>> /\ ~tick_input[1].left
    /\ \E w \in Indices :
          /\ children[w].visible /\ children[w].selected
          /\ selected_element = w
          /\ ~children[w].hovered

\* ---------------------------------------------------------------------------
\*  TextEdit: the dirty flag
\* ---------------------------------------------------------------------------
\* C32: whenever dirty is false the shaped label and its clusters are those
\* of the current text under the current hide_text mode; every step that
\* changes the text or the mode leaves dirty set; and dirty is cleared by
\* draw alone.
C32_CleanMeansShaped ==
    /\ [](~dirty => shaped = Shape(text, hide_text, shaped.box))
    /\ [][(text' # text \/ hide_text' # hide_text) => dirty']_vars
    /\ [][(dirty /\ ~dirty') => \E show \in BOOLEAN : Draw(show)]_vars

\* A text typed, hidden and drawn: the label shows one bullet per character.
C32_Witness ==
    /\ ~dirty /\ hide_text /\ Len(text) >= 2
    /\ Len(shaped.clusters) = Len(text)
    /\ shaped = Shape(text, hide_text, shaped.box)
    /\ cursor_offs # -1

\* ---------------------------------------------------------------------------
\*  needs_refresh
\* ---------------------------------------------------------------------------
GroupValueChanged ==
    \/ group'.scale # group.scale
    \/ group'.max_width # group.max_width
    \/ group'.autoscale # group.autoscale

\* C34: needs_refresh is a latch raised by changes. The card group's flag
\* rises exactly in the steps that change scale, max_width or autoscale or add
\* a card, a step that changes none of them leaves the flag as it was unless
\* it is the refresh; a card's flag is set by set_scale exactly when its scale
\* changes and is never cleared; UpdateText and update_text store the text and
\* set the flag of their widget whatever the text is; and a flag of a child of
\* the screen falls only in Screen::refresh, that of the group only in the
\* refresh its parent runs.
C34_RefreshLatch ==
    /\ [][(GroupValueChanged \/ Len(cards') # Len(cards)) => group'.needs_refresh]_vars
    /\ [][(~group.needs_refresh /\ group'.needs_refresh)
            => (GroupValueChanged \/ Len(cards') = Len(cards) + 1)]_vars
    /\ [][(group.needs_refresh /\ ~group'.needs_refresh) => GroupRefresh]_vars
    /\ [][Len(cards') = Len(cards) =>
            \A i \in 1..Len(cards) :
                cards'[i].needs_refresh
                    = (cards[i].needs_refresh \/ cards'[i].scale # cards[i].scale)]_vars
    /\ [][\A t \in LabelTexts :
            /\ UpdateText(t) => (labels'[1] = t /\ children'[1].needs_refresh)
            /\ update_text(t) => (labels'[2] = t /\ children'[2].needs_refresh)]_vars
    /\ [][(\E i \in 1..Len(children) :
                children[i].needs_refresh /\ ~children'[i].needs_refresh) => Refresh]_vars

\* The group's flag is up after a setter changed a value, a card's flag was
\* raised by set_scale in a refresh, the text box was refreshed after its text
\* was set and is as wide as its label, and the label's text was set since.
C34_Witness ==
    /\ group.needs_refresh /\ group.max_width = 300 /\ group.scale = 0
    /\ \E i \in 1..Len(cards) :
            cards[i].id = "PowerCard" /\ cards[i].needs_refresh /\ cards[i].scale = 2
    /\ labels = <<"a", "a">>
    /\ ~children[1].needs_refresh /\ children[2].needs_refresh
    /\ children[1].bounding_box = BoxAt(0, LabelWidth("a"))
    /\ children[2].bounding_box = BoxAt(0, 0)

\* ---------------------------------------------------------------------------
\*  InputSystem::process_events: what one poll leaves
\* ---------------------------------------------------------------------------
\* The keys of the key-down events of a queue and the texts of its text-input
\* events, each in the order of the queue.
Range(events) == {events[i] : i \in 1..Len(events)}

KeysOf(events) ==
    LET downs == SelectSeq(events, LAMBDA e : e.type = "SDL_EVENT_KEY_DOWN")
    IN  [k \in 1..Len(downs) |-> downs[k].key]

RECURSIVE TextsOf(_)
TextsOf(events) ==
    IF events = <<>> THEN <<>>
    ELSE (IF Head(events).type = "SDL_EVENT_TEXT_INPUT" THEN Head(events).text ELSE <<>>)
            \o TextsOf(Tail(events))

\* C35: every poll starts from empty kb_events and text_input and from
\* cleared button flags, so what a tick sees is what the events of the poll
\* just before it say, and nothing of an earlier poll: kb_events holds the
\* keys of the key-down events polled, in their order, text_input the texts
\* of the text-input events polled, concatenated in their order, and a button
\* flag is set exactly when a button-down event of that button was polled.
C35_OnePollOneTick ==
    /\ [][Polls =>
            /\ input'.kb_events = KeysOf(polled')
            /\ input'.text_input = TextsOf(polled')
            /\ input'.mouse.left = (ButtonDown("SDL_BUTTON_LEFT") \in Range(polled'))
            /\ input'.mouse.right = (ButtonDown("SDL_BUTTON_RIGHT") \in Range(polled'))
            /\ input'.mouse.middle = (ButtonDown("SDL_BUTTON_MIDDLE") \in Range(polled'))]_vars
    /\ [](loop_pc = "tick" =>
            /\ input.kb_events = KeysOf(polled)
            /\ input.text_input = TextsOf(polled)
            /\ input.mouse.left = (ButtonDown("SDL_BUTTON_LEFT") \in Range(polled)))
    /\ [][loop_pc = "tick" => (loop_pc' = "end" /\ input' = input)]_vars
    /\ [][(loop_pc = "end" /\ loop_pc' = "test") => input' = input]_vars

\* A tick about to run on two different keys polled in the order B, A, after
\* an earlier tick was given a click that this poll cleared.
C35_Witness ==
    /\ loop_pc = "tick"
    /\ polled = <<KeyDown("SDLK_B"), KeyDown("SDLK_A")>>
    /\ input.kb_events = <<"SDLK_B", "SDLK_A">>
    /\ selected_element # 0 /\ ~input.mouse.left

\* A poll of two texts leaves them concatenated in their order.
C35_WitnessText ==
    /\ loop_pc = "tick"
    /\ polled = <<TextEvent(<<"b", "c">>), TextEvent(<<"a">>)>>
    /\ input.text_input = <<"b", "c", "a">>

\* ---------------------------------------------------------------------------
\*  InputSystem::game_loop: the order of an iteration
\* ---------------------------------------------------------------------------
\* The loop calls the tick callback, and it reaches the end of the iteration
\* (SDL_WaitEventTimeout or Log).
CallsTick == loop_pc = "tick" /\ loop_pc' = "end"
EndsIteration == loop_pc = "end" /\ loop_pc' = "test"

\* C36: an iteration is the loop test, one poll, the callback, the end of the
\* iteration, in this order and each once: the callback is called only from
\* right after a poll and on the input that poll left, a poll is followed by
\* nothing but the callback, whether or not it saw quit, the wait or the
\* overrun report is made only from right after the callback, and an
\* iteration whose poll saw quit goes on to run the callback.
C36_PollTickWait ==
    /\ [][loop_pc' # loop_pc =>
            \/ loop_pc = "test" /\ loop_pc' \in {"poll", "returned"}
            \/ Polls
            \/ CallsTick
            \/ EndsIteration]_vars
    /\ [][input' # input => Polls]_vars
    /\ [][CallsTick =>
            tick_input' = <<[left |-> input.mouse.left]>>]_vars
    /\ [][loop_log' # loop_log => (EndsIteration \/ (loop_pc = "test" /\ loop_log' = <<>>))]_vars
    /\ [](loop_pc = "poll" => loop_log = <<>>)
    /\ (loop_pc = "tick" /\ input.quit) ~> (loop_pc = "end" /\ input.quit)

\* The callback has run, and clicked a widget, in the iteration whose poll
\* took a click and a quit event; the loop has not waited yet.
C36_Witness ==
    /\ loop_pc = "end" /\ input.quit /\ loop_log = <<>>
    /\ polled = <<ButtonDown("SDL_BUTTON_LEFT"), Quit>>
    /\ tick_input = <<[left |-> TRUE]>>
    /\ tick_log # <<>>

\* ---------------------------------------------------------------------------
\*  pr::validation: properties
\* ---------------------------------------------------------------------------
ValCall == val_in[1]
Returned(fn) == val_in # <<>> /\ val_out # <<>> /\ ValCall.fn = fn

\* How often card c occurs in w, and w being a rearrangement of v.
Occurrences(w, c) == Cardinality({i \in 1..Len(w) : w[i] = c})
IsPermutation(w, v) ==
    /\ Len(w) = Len(v)
    /\ \A c \in Range(w) \cup Range(v) : Occurrences(w, c) = Occurrences(v, c)

\* A sound is a consonant by its place in the enumeration.
Consonant(c) == c \in ConsonantStart..ConsonantEnd
Place(c) == CardDatabaseImpl[c + 1].place_or_frontness
Manner(c) == CardDatabaseImpl[c + 1].manner_or_height

\* No stretch of consecutive sounds of one class is longer than 2.
RunsAtMostTwo(w) ==
    \A i, j \in 1..Len(w) :
        (i <= j /\ \A k \in i..j : Consonant(w[k]) = Consonant(w[i])) => j - i + 1 <= 2

InitialCluster(w) == Consonant(w[1]) /\ Consonant(w[2])

\* C37: ValidateInitialWord returns Valid exactly when word is a permutation
\* of original, no run of sounds of one class is longer than 2, and a word
\* that starts with two consonants has a first one of manner above 2 and the
\* two differ in place or in manner; otherwise it returns the first check that
\* fails, in the order NotAPermutation, ClusterTooLong,
\* BadInitialClusterManner, BadInitialClusterCoordinates.
C37_InitialWord ==
    Returned("ValidateInitialWord") =>
        LET w == ValCall.word
            res == val_out[1].result
            mannerOk == InitialCluster(w) => Manner(w[1]) > 2
            coordsOk == InitialCluster(w) =>
                            ~(Place(w[1]) = Place(w[2]) /\ Manner(w[1]) = Manner(w[2]))
        IN  /\ res = "Valid" <=>
                    /\ IsPermutation(w, ValCall.original)
                    /\ RunsAtMostTwo(w)
                    /\ mannerOk /\ coordsOk
            /\ res = (IF ~IsPermutation(w, ValCall.original) THEN "NotAPermutation"
                      ELSE IF ~RunsAtMostTwo(w) THEN "ClusterTooLong"
                      ELSE IF ~mannerOk THEN "BadInitialClusterManner"
                      ELSE IF ~coordsOk THEN "BadInitialClusterCoordinates"
                      ELSE "Valid")

\* A rearranged word that starts with /p/ and /b/, which share place and
\* manner, was rejected for its coordinates.
C37_Witness ==
    /\ Returned("ValidateInitialWord")
    /\ ValCall.word[1] = Id("C_p") /\ ValCall.word[2] = Id("C_b")
    /\ ValCall.word[WordSize] = Id("V_i") /\ ValCall.original[1] = Id("V_i")
    /\ IsPermutation(ValCall.word, ValCall.original)
    /\ val_out[1].result = "BadInitialClusterCoordinates"

\* Three consonants in a row, in a word that is a rearrangement.
C37_WitnessCluster ==
    /\ Returned("ValidateInitialWord")
    /\ IsPermutation(ValCall.word, ValCall.original) /\ ValCall.word # ValCall.original
    /\ \A i \in 1..3 : Consonant(ValCall.word[i])
    /\ val_out[1].result = "ClusterTooLong"

\* The conversions of the card played on whose first card is the card played.
ChangesTo(played, target) ==
    {k \in 1..Len(CardDatabaseImpl[target + 1].converts_to) :
        CardDatabaseImpl[target + 1].converts_to[k][1] = played}

\* The positions next to at that exist in a span of n cards.
Neighbours(n, at) == {at - 1, at + 1} \cap (0..(n - 1))

\* C38: for a valid index at, ValidatePlaySoundCard returns Valid when on[at]
\* is /h/ or schwa and a neighbour of at that exists holds the card played;
\* otherwise, when the card played is the first card of a conversion of
\* on[at], NeedsOtherCard if that conversion has more than one card and Valid
\* if it has one; otherwise Valid when the two cards are of the same class,
\* differ and lie less than 2 apart in place plus manner; otherwise Invalid.
\* Every index it reads lies in the span.
C38_PlaySoundCard ==
    Returned("ValidatePlaySoundCard") =>
        LET played == ValCall.played
            on == ValCall.on
            at == ValCall.at
            target == on[at + 1]
            res == val_out[1].result
            changes == ChangesTo(played, target)
            first == CHOOSE k \in changes : \A l \in changes : k <= l
        IN  /\ val_out[1].reads \subseteq 0..(Len(on) - 1)
            /\ res = (IF /\ target \in {Id("C_h"), Id("V_schwa")}
                         /\ \E n \in Neighbours(Len(on), at) : on[n + 1] = played
                      THEN "Valid"
                      ELSE IF changes # {}
                      THEN (IF Len(CardDatabaseImpl[target + 1].converts_to[first]) > 1
                            THEN "NeedsOtherCard" ELSE "Valid")
                      ELSE IF /\ Consonant(played) = Consonant(target)
                              /\ played # target
                              /\ Abs(Place(played) - Place(target))
                                    + Abs(Manner(played) - Manner(target)) < 2
                      THEN "Valid"
                      ELSE "Invalid")

\* /u/ played on /w/, whose second conversion is two /u/: another card is
\* needed; /w/ is the last card of the span and its neighbour is read by
\* no test.
C38_Witness ==
    /\ Returned("ValidatePlaySoundCard")
    /\ ValCall.played = Id("V_u") /\ ValCall.on = <<Id("C_f"), Id("C_w")>> /\ ValCall.at = 1
    /\ val_out[1] = [result |-> "NeedsOtherCard", reads |-> {1}]

\* /w/ played on an /h/ at the start of the span that stands before a /w/.
C38_WitnessNeighbour ==
    /\ Returned("ValidatePlaySoundCard")
    /\ ValCall.played = Id("C_w") /\ ValCall.on = <<Id("C_h"), Id("C_w")>> /\ ValCall.at = 0
    /\ val_out[1] = [result |-> "Valid", reads |-> {0, 1}]
====
